---- MODULE Spec2Model ----
(***************************************************************************)
(* Verification model of the cartha-validator daemon:                      *)
(*   - cartha_validator/main.py     main() daemon loop, run_epoch,         *)
(*                                  process_entries                        *)
(*   - cartha_validator/weights.py  _normalize, _set_weights_with_timeout, *)
(*                                  publish                                *)
(* Blocks, weeks and seconds are scaled down to small integers; weights    *)
(* are exact fractions n/d so that no rounding is hidden.                  *)
(***************************************************************************)
EXTENDS Integers, Sequences, FiniteSets, TLC

(* ------------------------------------------------------------------ *)
(* Bounds of the model (scaled stand-ins for run-time quantities)      *)
(* ------------------------------------------------------------------ *)
MaxBlock == 2            \* highest chain block explored
MaxWeek == 2             \* highest weekly epoch explored
Tempo == 2               \* metagraph.tempo, in blocks
SyncInterval == 2        \* metagraph_sync_interval, in blocks
SetWeightsTimeout == 2   \* settings.set_weights_timeout, in clock ticks
MaxOutstanding == 2      \* cap on set_weights calls in flight at once
MaxScore == 2            \* highest score handed to _normalize on its own
MaxEntries == 2          \* most verifier entries handed to process_entries
MaxBps == 1              \* highest target weight a vault answers with
MaxTime == 2             \* last tick of the clock the pool-weight cache sees
MaxWords == 2            \* most words in a set_weights answer message

(* ------------------------------------------------------------------ *)
(* Program constants                                                   *)
(* ------------------------------------------------------------------ *)
Scale == 1000000                 \* weights are fractions of Scale
TraderRewardsPoolWeight == 243902  \* 0.243902 * Scale
NoUid == -1                      \* a uid that is None (or negative)
TraderUid == 9
OwnerUid == 0
NoWeek == 0                      \* last_weekly_epoch_version is None
NoTime == -1                     \* an entry without the timestamp
NoBlock == -1                    \* no set_weights call accepted yet
Now == 1                         \* current_time of a pass
MaxLockDays == 2                 \* settings.max_lock_days, scaled
MinTotalAssets == 2              \* settings.min_total_assets_usdc, scaled
PoolWeightUnit == 2               \* the pool weight 1.0, in halves
RawUnit == PoolWeightUnit * MaxLockDays  \* raw_total 1.0
ScoreUnit == 100                 \* the score 1.0, in hundredths
ScoreTemperature == 2            \* settings.score_temperature, scaled
SlotsPerDay == 4                 \* instants of a day that are told apart
MaxMajor == 1                    \* largest MAJOR of a version
MaxPatch == 10                   \* largest PATCH of a version
NumVaults == 3                   \* len(PARENT_VAULT_ADDRESSES)
RetryAttempts == 3               \* retry_attempts passed by the oracle
CacheTtl == 2                    \* CACHE_TTL_HOURS, in ticks of 12 hours

None == <<>>
Some(x) == <<x>>
EmptyMap == [u \in {} |-> 0]

(* Score maps process_entries can produce from the verifier's roster:      *)
(* 1: no entry scored (every position expired); 2: one miner, scored 0;    *)
(* 3: two live miners.                                                     *)
RosterScores ==
  << EmptyMap,
     [u \in {1} |-> 0],
     [u \in {1, 2} |-> IF u = 1 THEN 2 ELSE 1] >>
Rosters == 1..Len(RosterScores)

VARIABLES
  pc,                          \* position of the main thread
  dry_run,                     \* args.dry_run
  last_weekly_epoch_version,   \* main(): NoWeek or a week
  cached_weights,              \* main(): None or Some(weights)
  cached_scores,               \* main(): None or Some(scores)
  cached_epoch_version,        \* main(): NoWeek or a week
  last_metagraph_sync,         \* main()
  last_weight_publish_block,   \* main()
  bittensor_epoch_length,      \* main()
  current_block,               \* main(): block read at the top of the tick
  current_weekly_epoch_version,\* main(): weekly version read in the tick
  mg_last_update,              \* metagraph.last_update[validator_uid]
  chain_block,                 \* subtensor.get_current_block()
  now_week,                    \* week of datetime.now()
  roster,                      \* what the verifier would answer now
  pub,                         \* frame of the running / last publish call
  thread,                      \* worker thread of _set_weights_with_timeout
  elapsed,                     \* clock ticks spent in thread.join
  zombies,                     \* abandoned set_weights calls still in flight
  tick_fetched,                \* a verifier request was sent in this tick
  signalled,                   \* signal received: "none", "SIGINT", "SIGTERM"
  logged,                      \* kind of the last line main() logged:
                               \* "none", "info", "error", "interrupt"
  last_submit_block,           \* block at which the daemon started the last
                               \* set_weights call of this weekly epoch that
                               \* the chain accepted, or NoBlock
  call                         \* frame of a function called on its own:
                               \* its arguments and, once returned, its result

vars == << pc, dry_run, last_weekly_epoch_version, cached_weights,
           cached_scores, cached_epoch_version, last_metagraph_sync,
           last_weight_publish_block, bittensor_epoch_length, current_block,
           current_weekly_epoch_version, mg_last_update, chain_block,
           now_week, roster, pub, thread, elapsed, zombies, tick_fetched,
           signalled, logged, last_submit_block, call >>

daemon_state == << last_weekly_epoch_version, cached_weights, cached_scores,
                   cached_epoch_version, last_metagraph_sync,
                   last_weight_publish_block, bittensor_epoch_length >>
tick_locals == << current_block, current_weekly_epoch_version >>
environment == << chain_block, now_week, roster >>

(* ------------------------------------------------------------------ *)
(* weights.py: _normalize                                              *)
(* ------------------------------------------------------------------ *)
RECURSIVE SumOver(_, _)
SumOver(f, S) ==
  IF S = {} THEN 0
  ELSE LET u == CHOOSE x \in S : TRUE IN f[u] + SumOver(f, S \ {u})

Max0(x) == IF x > 0 THEN x ELSE 0

\* weights.py:59  remaining_weight = 1.0 - trader_pool_weight
RemainingWeightIgnoresTrader(trader_pool_weight) == Scale
RemainingWeight(trader_pool_weight) == Scale - trader_pool_weight

\* weights.py:62  excluded_uids = {trader_pool_uid, owner_hotkey_uid} - {None}
ExcludesTraderOnly(trader_pool_uid, owner_hotkey_uid) ==
  {trader_pool_uid} \ {NoUid}
ExcludesOwnerOnly(trader_pool_uid, owner_hotkey_uid) ==
  {owner_hotkey_uid} \ {NoUid}
ExcludedUids(trader_pool_uid, owner_hotkey_uid) ==
  {trader_pool_uid, owner_hotkey_uid} \ {NoUid}

\* weights.py:66  miners with score 0 are filtered out of the allocation
PositiveMinerScores(miner_scores, positive) ==
  {u \in miner_scores : positive[u] > 0}

\* weights.py:118  trader_pool_uid is not None and trader_pool_weight > 0
AddsTraderPoolAtZeroWeight(trader_pool_uid, trader_pool_weight) ==
  trader_pool_uid # NoUid
AddsTraderPoolNever(trader_pool_uid, trader_pool_weight) == FALSE
AddsTraderPool(trader_pool_uid, trader_pool_weight) ==
  trader_pool_uid # NoUid /\ trader_pool_weight > 0

_normalize(scores, trader_pool_uid, trader_pool_weight_in, owner_hotkey_uid) ==
  LET trader_pool_weight ==
        IF trader_pool_weight_in < 0 \/ trader_pool_weight_in >= Scale
        THEN 0 ELSE trader_pool_weight_in
      positive == [u \in DOMAIN scores |-> Max0(scores[u])]
      remaining_weight == RemainingWeight(trader_pool_weight)
      excluded_uids == ExcludedUids(trader_pool_uid, owner_hotkey_uid)
      miner_scores == {u \in DOMAIN positive : u \notin excluded_uids}
      positive_miner_scores == PositiveMinerScores(miner_scores, positive)
      miner_total == SumOver(positive, positive_miner_scores)
      base ==
        IF miner_total <= 0
        THEN IF owner_hotkey_uid # NoUid
             THEN [u \in {owner_hotkey_uid} |->
                     [n |-> remaining_weight, d |-> Scale]]
             ELSE EmptyMap
        ELSE [u \in positive_miner_scores |->
                [n |-> positive[u] * remaining_weight,
                 d |-> miner_total * Scale]]
  IN  IF AddsTraderPool(trader_pool_uid, trader_pool_weight)
      THEN [u \in (DOMAIN base) \cup {trader_pool_uid} |->
              IF u = trader_pool_uid
              THEN [n |-> trader_pool_weight, d |-> Scale]
              ELSE base[u]]
      ELSE base

(* ------------------------------------------------------------------ *)
(* Frames and helpers                                                  *)
(* ------------------------------------------------------------------ *)
NoScores == [vals |-> EmptyMap, week |-> NoWeek, roster |-> 0]

IdlePub ==
  [ctx |-> "none", force |-> FALSE, has_metagraph |-> FALSE,
   has_validator_uid |-> FALSE, scores |-> NoScores,
   trader_pool_uid |-> NoUid, owner_hotkey_uid |-> NoUid,
   weights |-> EmptyMap, gap |-> -1, blocks_since_update |-> -1,
   checked |-> FALSE, submitted |-> FALSE,
   status |-> "idle", reason |-> "none"]

\* no function is being called on its own
NoCall == [fn |-> "none"]

Running == pc \notin {"exited", "crashed", "killed"}

\* settings.trader_rewards_pool_hotkey is configured and the weight is > 0
TraderPoolConfigured == TraderRewardsPoolWeight > 0

\* weights.py:350  getattr(metagraph, "tempo", None) or settings.epoch_length_blocks
EpochLength == Tempo

\* weights.py:341  the cooldown check runs unless force is set or the
\* metagraph or the validator uid is missing
CooldownCheck(force, has_metagraph, has_validator_uid) ==
  ~force /\ has_metagraph /\ has_validator_uid

\* weights.py:352  blocks_since_update < epoch_length
InCooldownOffByOne(blocks_since_update, epoch_length) ==
  blocks_since_update < epoch_length - 1
InCooldown(blocks_since_update, epoch_length) ==
  blocks_since_update < epoch_length

\* weights.py:187  thread.join(timeout=timeout): the wait may go on only
\* while the timeout has not run out
JoinNoDeadline(e) == e < SetWeightsTimeout + 2
JoinDeadline(e) == e < SetWeightsTimeout

\* main.py:1104-1123  which handler of the loop's try statement takes an
\* exception raised inside the try body
HandlerOfRuntimeErrorOnly(exc) ==
  IF exc = "KeyboardInterrupt" THEN "exited"
  ELSE IF exc = "RuntimeError" THEN "errsleep" ELSE "crashed"
HandlerOf(exc) == IF exc = "KeyboardInterrupt" THEN "exited" ELSE "errsleep"
LogOf(exc) == IF exc = "KeyboardInterrupt" THEN "interrupt" ELSE "error"

(* ------------------------------------------------------------------ *)
(* weights.py: publish, up to the start of the worker thread           *)
(* ------------------------------------------------------------------ *)
PublishCall ==
  /\ pc = "publish"
  /\ \E trader_lookup \in {NoUid, TraderUid},
        owner_lookup \in {NoUid, OwnerUid},
        chain_ok \in BOOLEAN :
       LET scores == pub.scores.vals
           trader_pool_uid ==
             IF TraderPoolConfigured THEN trader_lookup ELSE NoUid
           owner_hotkey_uid ==
             IF pub.has_metagraph THEN owner_lookup ELSE NoUid
           weights ==
             _normalize(scores, trader_pool_uid,
                        IF trader_pool_uid # NoUid
                        THEN TraderRewardsPoolWeight ELSE 0,
                        owner_hotkey_uid)
           check == CooldownCheck(pub.force, pub.has_metagraph,
                                  pub.has_validator_uid)
           blocks_since_update == chain_block - mg_last_update
           frame == [pub EXCEPT !.trader_pool_uid = trader_pool_uid,
                                !.owner_hotkey_uid = owner_hotkey_uid,
                                !.gap = blocks_since_update]
       IN
         IF scores = EmptyMap /\ trader_pool_uid = NoUid
              /\ owner_hotkey_uid = NoUid
         THEN \* weights.py:285-290  nothing to publish
              /\ pub' = [frame EXCEPT !.status = "returned",
                                    !.reason = "nothing",
                                    !.weights = EmptyMap]
              /\ pc' = "pub_ret"
              /\ UNCHANGED << thread, elapsed >>
         ELSE IF check /\ ~chain_ok
         THEN \* weights.py:342  get_current_block raises
              /\ pub' = [frame EXCEPT !.status = "raised",
                                    !.reason = "chain_error",
                                    !.weights = weights]
              /\ pc' = "pub_ret"
              /\ UNCHANGED << thread, elapsed >>
         ELSE IF check /\ InCooldown(blocks_since_update, EpochLength)
         THEN \* weights.py:352-360  cooldown: return without submitting
              /\ pub' = [frame EXCEPT !.status = "returned",
                                    !.reason = "cooldown",
                                    !.weights = weights,
                                    !.checked = TRUE,
                                    !.blocks_since_update =
                                        blocks_since_update]
              /\ pc' = "pub_ret"
              /\ UNCHANGED << thread, elapsed >>
         ELSE \* weights.py:372, 185-187  start the worker and join it
              /\ zombies < MaxOutstanding
              /\ pub' = [frame EXCEPT !.weights = weights,
                                    !.checked = check,
                                    !.blocks_since_update =
                                        IF check THEN blocks_since_update
                                        ELSE -1,
                                    !.submitted = TRUE]
              /\ thread' = "alive"
              /\ elapsed' = 0
              /\ pc' = "join"
  /\ UNCHANGED << call, dry_run, daemon_state, tick_locals, mg_last_update,
                  environment, zombies, tick_fetched, signalled,
                  last_submit_block, logged >>

(* weights.py:171-183  the worker's subtensor.set_weights call answers *)
SetWeightsAnswer ==
  /\ pc = "join"
  /\ thread = "alive"
  /\ \E answer \in {"ok", "too_soon", "failed", "exception"} :
       thread' = answer
  /\ UNCHANGED << pc, call, dry_run, daemon_state, tick_locals, mg_last_update,
                  environment, pub, elapsed, zombies, tick_fetched,
                  signalled, last_submit_block, logged >>

(* weights.py:187  a clock tick passes while the main thread is in join *)
JoinTick ==
  /\ pc = "join"
  /\ thread = "alive"
  /\ JoinDeadline(elapsed)
  /\ elapsed' = elapsed + 1
  /\ UNCHANGED << pc, call, dry_run, daemon_state, tick_locals, mg_last_update,
                  environment, pub, thread, zombies, tick_fetched,
                  signalled, last_submit_block, logged >>

(* weights.py:189-191, 381-385  the join timed out: the worker is left    *)
(* running and publish raises RuntimeError                                *)
JoinTimeout ==
  /\ pc = "join"
  /\ thread = "alive"
  /\ ~JoinDeadline(elapsed)
  /\ zombies' = zombies + 1
  /\ thread' = "none"
  /\ pub' = [pub EXCEPT !.status = "raised", !.reason = "timeout"]
  /\ pc' = "pub_ret"
  /\ UNCHANGED << call, dry_run, daemon_state, tick_locals, mg_last_update,
                  environment, elapsed, tick_fetched, signalled,
                  last_submit_block,
                  logged >>

(* weights.py:193-196, 386-410  the worker finished: classify its result *)
JoinReturn ==
  /\ pc = "join"
  /\ thread \notin {"none", "alive"}
  /\ pub' = [pub EXCEPT
               !.status = IF thread \in {"ok", "too_soon"}
                          THEN "returned" ELSE "raised",
               !.reason = IF thread = "ok" THEN "success" ELSE thread]
  /\ last_submit_block' =
       IF thread = "ok" /\ pub.ctx \in {"weekly", "tempo"}
       THEN pub.gap + mg_last_update
       ELSE last_submit_block
  /\ thread' = "none"
  /\ pc' = "pub_ret"
  /\ UNCHANGED << call, dry_run, daemon_state, tick_locals, mg_last_update,
                  environment, elapsed, zombies, tick_fetched,
                  signalled, logged >>

(* an abandoned set_weights call finally ends on the remote side *)
ZombieAnswer ==
  /\ Running
  /\ zombies > 0
  /\ zombies' = zombies - 1
  /\ UNCHANGED << pc, call, dry_run, daemon_state, tick_locals, mg_last_update,
                  environment, pub, thread, elapsed, tick_fetched,
                  signalled, last_submit_block, logged >>

(* ------------------------------------------------------------------ *)
(* main.py: the daemon loop                                            *)
(* ------------------------------------------------------------------ *)
\* main.py:996-1008 and 460-470: force as the weekly pass hands it to publish
\* (run_epoch and process_entries pass none, so publish's default applies)
WeeklyPassForce == FALSE

\* main.py:1068-1076: force as the per-tempo publish hands it to publish
TempoPublishForce == FALSE

\* main.py:1104-1123: the back-off sleep runs in the except clause, outside
\* the try body whose KeyboardInterrupt handler logs and breaks
InTry(p) == p # "errsleep"

\* main.py:971  last_weekly_epoch_version != current_weekly_epoch_version
OnlyOnRestart(last, current) == last = NoWeek
AlwaysRefetch(last, current) == TRUE
NewWeeklyEpoch(last, current) == last # current

\* main.py:1069  the scores the per-tempo publish submits
FreshScores(cached) ==
  [vals |-> RosterScores[roster], week |-> last_weekly_epoch_version,
   roster |-> roster]
TempoPublishScores(cached) == cached[1]

CallFrame(ctx, force, scores) ==
  [IdlePub EXCEPT !.ctx = ctx, !.force = force, !.has_metagraph = TRUE,
                  !.has_validator_uid = TRUE, !.scores = scores,
                  !.status = "called"]

(* main.py:924-1102  top of a tick up to the call of run_epoch or publish *)
TickStart ==
  /\ pc = "loop"
  /\ tick_fetched' = FALSE
  /\ last_submit_block' =
       IF NewWeeklyEpoch(last_weekly_epoch_version, now_week)
       THEN NoBlock ELSE last_submit_block
  /\ \E chain_ok \in BOOLEAN, sync_ok \in BOOLEAN,
        synced_last_update \in mg_last_update..chain_block :
       LET need_sync == chain_block - last_metagraph_sync >= SyncInterval
           new_last_update ==
             IF need_sync THEN synced_last_update ELSE mg_last_update
           blocks_since_update == chain_block - new_last_update
       IN
         IF ~chain_ok
         THEN \* main.py:926  get_current_block raises
              /\ pc' = HandlerOf("Exception")
              /\ logged' = LogOf("Exception")
              /\ UNCHANGED << daemon_state, tick_locals, mg_last_update, pub >>
         ELSE IF need_sync /\ ~sync_ok
         THEN \* main.py:933  metagraph.sync raises
              /\ pc' = HandlerOf("Exception")
              /\ logged' = LogOf("Exception")
              /\ current_block' = chain_block
              /\ UNCHANGED << daemon_state, current_weekly_epoch_version,
                              mg_last_update, pub >>
         ELSE /\ current_block' = chain_block
              /\ mg_last_update' = new_last_update
              /\ last_metagraph_sync' =
                   IF need_sync THEN chain_block ELSE last_metagraph_sync
              /\ current_weekly_epoch_version' = now_week
              /\ UNCHANGED << last_weekly_epoch_version, cached_weights,
                              cached_scores, cached_epoch_version,
                              last_weight_publish_block,
                              bittensor_epoch_length >>
              /\ IF NewWeeklyEpoch(last_weekly_epoch_version, now_week)
                 THEN \* main.py:971-996
                      /\ pc' = "run_epoch"
                      /\ logged' = "info"
                      /\ pub' = pub
                 ELSE IF cached_weights # None /\ cached_scores # None
                           /\ cached_epoch_version # NoWeek
                 THEN IF blocks_since_update >= bittensor_epoch_length
                      THEN \* main.py:1060-1076
                           /\ pc' = "publish"
                           /\ logged' = "info"
                           /\ pub' = CallFrame("tempo", TempoPublishForce,
                                               TempoPublishScores(
                                                 cached_scores))
                      ELSE /\ pc' = "sleep"
                           /\ logged' = "info"
                           /\ pub' = pub
                 ELSE \* main.py:1089-1095
                      /\ pc' = "sleep"
                      /\ logged' = "info"
                      /\ pub' = pub
  /\ UNCHANGED << call, dry_run, environment, thread, elapsed, zombies,
                  signalled >>

(* main.py:501-682 run_epoch and 207-476 process_entries, up to the call  *)
(* of publish                                                             *)
RunEpoch ==
  /\ pc = "run_epoch"
  /\ \E verifier_ok \in BOOLEAN :
       LET scores == [vals |-> RosterScores[roster],
                      week |-> current_weekly_epoch_version,
                      roster |-> roster]
       IN
         IF ~verifier_ok
         THEN \* main.py:583-610  the verifier request failed
              /\ pc' = HandlerOf("RuntimeError")
              /\ logged' = LogOf("RuntimeError")
              /\ pub' = pub
              /\ tick_fetched' = FALSE
         ELSE IF scores.vals = EmptyMap
         THEN \* main.py:471-476
              /\ pub' = [CallFrame("weekly", FALSE, scores) EXCEPT
                           !.status = "returned", !.reason = "no_scores"]
              /\ pc' = "pub_ret"
              /\ logged' = logged
              /\ tick_fetched' = TRUE
         ELSE IF dry_run
         THEN \* main.py:453-458
              /\ pub' = [CallFrame("weekly", FALSE, scores) EXCEPT
                           !.status = "returned", !.reason = "dry_run",
                           !.weights =
                              _normalize(scores.vals, NoUid, 0, NoUid)]
              /\ pc' = "pub_ret"
              /\ logged' = logged
              /\ tick_fetched' = TRUE
         ELSE \* main.py:460-470
              /\ pub' = CallFrame("weekly", WeeklyPassForce, scores)
              /\ pc' = "publish"
              /\ logged' = logged
              /\ tick_fetched' = TRUE
  /\ UNCHANGED << call, dry_run, daemon_state, tick_locals, mg_last_update,
                  environment, thread, elapsed, zombies, signalled,
                  last_submit_block >>

(* main.py:478-498, 681-768, 1010-1027  the pass returned: write the log  *)
(* file, then cache the result                                            *)
WeeklyPassReturn ==
  /\ pc = "pub_ret"
  /\ pub.ctx = "weekly"
  /\ pub.status = "returned"
  /\ \E log_ok \in BOOLEAN :
       IF ~log_ok
       THEN \* main.py:696, 724  mkdir or write_text raises
            /\ pc' = HandlerOf("OSError")
            /\ logged' = LogOf("OSError")
            /\ UNCHANGED daemon_state
       ELSE /\ cached_weights' = Some(pub.weights)
            /\ cached_scores' = Some(pub.scores)
            /\ cached_epoch_version' = current_weekly_epoch_version
            /\ last_weekly_epoch_version' = current_weekly_epoch_version
            /\ last_weight_publish_block' = current_block
            /\ pc' = "loop"
            /\ logged' = "info"
            /\ UNCHANGED << last_metagraph_sync, bittensor_epoch_length >>
  /\ pub' = IdlePub
  /\ elapsed' = 0
  /\ tick_fetched' = FALSE
  /\ UNCHANGED << call, dry_run, tick_locals, mg_last_update, environment,
                  thread, zombies, signalled, last_submit_block >>

(* main.py:1078-1102  publish of the cached scores returned *)
TempoPublishReturn ==
  /\ pc = "pub_ret"
  /\ pub.ctx = "tempo"
  /\ pub.status = "returned"
  /\ last_weight_publish_block' =
       IF pub.weights # EmptyMap THEN current_block
       ELSE last_weight_publish_block
  /\ logged' = "info"
  /\ pc' = "sleep"
  /\ pub' = IdlePub
  /\ elapsed' = 0
  /\ tick_fetched' = FALSE
  /\ UNCHANGED << call, dry_run, last_weekly_epoch_version, cached_weights,
                  cached_scores, cached_epoch_version, last_metagraph_sync,
                  bittensor_epoch_length, tick_locals, mg_last_update,
                  environment, thread, zombies, signalled, last_submit_block >>

(* main.py:1110-1122  publish raised inside the tick *)
TickError ==
  /\ pc = "pub_ret"
  /\ pub.ctx \in {"weekly", "tempo"}
  /\ pub.status = "raised"
  /\ pc' = HandlerOf("RuntimeError")
  /\ logged' = LogOf("RuntimeError")
  /\ pub' = IdlePub
  /\ elapsed' = 0
  /\ tick_fetched' = FALSE
  /\ UNCHANGED << call, dry_run, daemon_state, tick_locals, mg_last_update,
                  environment, thread, zombies, signalled, last_submit_block >>

(* main.py:1102  time.sleep(args.poll_interval) at the end of a tick *)
PollSleep ==
  /\ pc = "sleep"
  /\ pc' = "loop"
  /\ UNCHANGED << call, dry_run, daemon_state, tick_locals, mg_last_update,
                  environment, pub, thread, elapsed, zombies, tick_fetched,
                  signalled, last_submit_block, logged >>

(* main.py:1123  time.sleep(args.poll_interval) of the error handler *)
ErrorSleep ==
  /\ pc = "errsleep"
  /\ pc' = "loop"
  /\ UNCHANGED << call, dry_run, daemon_state, tick_locals, mg_last_update,
                  environment, pub, thread, elapsed, zombies, tick_fetched,
                  signalled, last_submit_block, logged >>

(* SIGINT: Python raises KeyboardInterrupt in the main thread *)
KeyboardInterrupt ==
  /\ Running
  /\ signalled = "none"
  /\ signalled' = "SIGINT"
  /\ IF InTry(pc)
     THEN \* main.py:1104-1109
          /\ pc' = HandlerOf("KeyboardInterrupt")
          /\ logged' = LogOf("KeyboardInterrupt")
     ELSE \* raised in the except clause: nothing catches it
          /\ pc' = "crashed"
          /\ logged' = logged
  /\ thread' = "none"
  /\ zombies' = 0
  /\ UNCHANGED << call, dry_run, daemon_state, tick_locals, mg_last_update,
                  environment, pub, elapsed, tick_fetched,
                  last_submit_block >>

(* SIGTERM: main() installs no handler, the process ends at once *)
Sigterm ==
  /\ Running
  /\ signalled = "none"
  /\ signalled' = "SIGTERM"
  /\ pc' = "killed"
  /\ thread' = "none"
  /\ zombies' = 0
  /\ UNCHANGED << call, dry_run, daemon_state, tick_locals, mg_last_update,
                  environment, pub, elapsed, tick_fetched, logged,
                  last_submit_block >>

(* ------------------------------------------------------------------ *)
(* Environment                                                         *)
(* ------------------------------------------------------------------ *)
AdvanceBlock ==
  /\ Running
  /\ chain_block < MaxBlock
  /\ chain_block' = chain_block + 1
  /\ UNCHANGED << pc, call, dry_run, daemon_state, tick_locals, mg_last_update,
                  now_week, roster, pub, thread, elapsed, zombies,
                  tick_fetched, signalled, last_submit_block, logged >>

AdvanceWeek ==
  /\ Running
  /\ now_week < MaxWeek
  /\ now_week' = now_week + 1
  /\ UNCHANGED << pc, call, dry_run, daemon_state, tick_locals, mg_last_update,
                  chain_block, roster, pub, thread, elapsed, zombies,
                  tick_fetched, signalled, last_submit_block, logged >>

(* a position expires, a hotkey deregisters or a new roster is frozen *)
RosterChange ==
  /\ Running
  /\ \E r \in Rosters \ {roster} : roster' = r
  /\ UNCHANGED << pc, call, dry_run, daemon_state, tick_locals, mg_last_update,
                  chain_block, now_week, pub, thread, elapsed, zombies,
                  tick_fetched, signalled, last_submit_block, logged >>

(* ------------------------------------------------------------------ *)
(* The daemon                                                          *)
(* ------------------------------------------------------------------ *)
Init ==
  /\ pc = "loop"
  /\ dry_run \in BOOLEAN
  /\ last_weekly_epoch_version = NoWeek
  /\ cached_weights = None
  /\ cached_scores = None
  /\ cached_epoch_version = NoWeek
  /\ last_metagraph_sync = 0
  /\ last_weight_publish_block = 0
  /\ bittensor_epoch_length = Tempo
  /\ chain_block \in 0..Tempo
  /\ current_block = chain_block
  /\ current_weekly_epoch_version = NoWeek
  /\ mg_last_update \in 0..chain_block
  /\ now_week = 1
  /\ roster \in Rosters
  /\ pub = IdlePub
  /\ thread = "none"
  /\ elapsed = 0
  /\ zombies = 0
  /\ tick_fetched = FALSE
  /\ signalled = "none"
  /\ logged = "none"
  /\ last_submit_block = NoBlock
  /\ call = NoCall

Next ==
  \/ TickStart
  \/ RunEpoch
  \/ PublishCall
  \/ SetWeightsAnswer
  \/ JoinTick
  \/ JoinTimeout
  \/ JoinReturn
  \/ ZombieAnswer
  \/ WeeklyPassReturn
  \/ TempoPublishReturn
  \/ TickError
  \/ PollSleep
  \/ ErrorSleep
  \/ KeyboardInterrupt
  \/ Sigterm
  \/ AdvanceBlock
  \/ AdvanceWeek
  \/ RosterChange

Spec == Init /\ [][Next]_vars

(* ------------------------------------------------------------------ *)
(* publish called on its own, with any arguments                       *)
(* ------------------------------------------------------------------ *)
(* weights.py:199-208  a caller hands publish its arguments *)
DirectCall ==
  /\ pc = "idle"
  /\ \E force \in BOOLEAN, has_metagraph \in BOOLEAN,
        has_validator_uid \in BOOLEAN, r \in Rosters,
        last_update \in 0..chain_block :
       /\ pub' = [IdlePub EXCEPT
                    !.ctx = "direct", !.force = force,
                    !.has_metagraph = has_metagraph,
                    !.has_validator_uid = has_validator_uid,
                    !.scores = [vals |-> RosterScores[r], week |-> NoWeek,
                                roster |-> r],
                    !.status = "called"]
       /\ mg_last_update' = last_update
  /\ pc' = "publish"
  /\ elapsed' = 0
  /\ UNCHANGED << call, dry_run, daemon_state, tick_locals, environment, thread,
                  zombies, tick_fetched, signalled, last_submit_block, logged >>

(* weights.py:360, 385, 390, 401, 405, 410  publish hands control back *)
DirectReturn ==
  /\ pc = "pub_ret"
  /\ pub.ctx = "direct"
  /\ pc' = "idle"
  /\ UNCHANGED << call, dry_run, daemon_state, tick_locals, mg_last_update,
                  environment, pub, thread, elapsed, zombies, tick_fetched,
                  signalled, last_submit_block, logged >>

InitPublish ==
  /\ pc = "idle"
  /\ dry_run = FALSE
  /\ last_weekly_epoch_version = NoWeek
  /\ cached_weights = None
  /\ cached_scores = None
  /\ cached_epoch_version = NoWeek
  /\ last_metagraph_sync = 0
  /\ last_weight_publish_block = 0
  /\ bittensor_epoch_length = Tempo
  /\ chain_block \in 0..Tempo
  /\ current_block = chain_block
  /\ current_weekly_epoch_version = NoWeek
  /\ mg_last_update = 0
  /\ now_week = 1
  /\ roster = 1
  /\ pub = IdlePub
  /\ thread = "none"
  /\ elapsed = 0
  /\ zombies = 0
  /\ tick_fetched = FALSE
  /\ signalled = "none"
  /\ logged = "none"
  /\ last_submit_block = NoBlock
  /\ call = NoCall

NextPublish ==
  \/ DirectCall
  \/ PublishCall
  \/ SetWeightsAnswer
  \/ JoinTick
  \/ JoinTimeout
  \/ JoinReturn
  \/ ZombieAnswer
  \/ DirectReturn
  \/ AdvanceBlock

SpecPublish == InitPublish /\ [][NextPublish]_vars

(* ------------------------------------------------------------------ *)
(* _normalize called on its own, with any arguments                    *)
(* ------------------------------------------------------------------ *)
program == << pc, dry_run, daemon_state, tick_locals, mg_last_update,
              environment, pub, thread, elapsed, zombies, tick_fetched,
              signalled, logged, last_submit_block >>

\* uids a score map may hold: two miners, and the hotkeys of the owner and
\* of the trader pool when they hold verified positions themselves
ScoreUids == {OwnerUid, 1, 2, TraderUid}
ScoreMaps == UNION {[S -> -1..MaxScore] : S \in SUBSET ScoreUids}

\* trader_pool_weight arguments: below range, zero, the configured weight,
\* one half, and the upper end of the range (invalid)
TraderWeights == {-1, 0, TraderRewardsPoolWeight, Scale \div 2, Scale}

(* weights.py:30-35  a caller hands _normalize its arguments *)
NormalizeCall ==
  /\ call.fn = "none"
  /\ \E scores \in ScoreMaps, trader_pool_uid \in {NoUid, TraderUid},
        trader_pool_weight \in TraderWeights,
        owner_hotkey_uid \in {NoUid, OwnerUid} :
       call' = [fn |-> "_normalize", status |-> "called",
                scores |-> scores, trader_pool_uid |-> trader_pool_uid,
                trader_pool_weight |-> trader_pool_weight,
                owner_hotkey_uid |-> owner_hotkey_uid,
                weights |-> EmptyMap]
  /\ UNCHANGED program

(* weights.py:47-134  _normalize returns the weights *)
NormalizeReturn ==
  /\ call.fn = "_normalize"
  /\ call.status = "called"
  /\ call' = [call EXCEPT
               !.status = "returned",
               !.weights = _normalize(call.scores, call.trader_pool_uid,
                                      call.trader_pool_weight,
                                      call.owner_hotkey_uid)]
  /\ UNCHANGED program

InitNormalize == InitPublish /\ chain_block = 0

NextNormalize ==
  \/ NormalizeCall
  \/ NormalizeReturn

SpecNormalize == InitNormalize /\ [][NextNormalize]_vars

(* ------------------------------------------------------------------ *)
(* process_entries called on its own (use_verified_amounts = True)     *)
(* ------------------------------------------------------------------ *)
Hotkeys == {"hk1", "hk2"}
PoolIds == {"A", "B"}

\* subtensor.get_uid_for_hotkey_on_subnet: both hotkeys are registered
UidOf(hotkey) == IF hotkey = "hk1" THEN 1 ELSE 2

\* timestamps: absent, or a time before, at or after current_time
Times == {NoTime, 0, 1, 2}

\* verifier entries: amount and lock_days differ between the two sizes, so
\* that a merge shows
Entries ==
  { [hotkey |-> h, pool_id |-> p, amount |-> a, lock_days |-> 3 - a,
     expires_at |-> t[1], deregistered_at |-> t[2]] :
      h \in Hotkeys, p \in PoolIds, a \in {1, 2},
      t \in {x \in Times \X Times :
               x[1] = NoTime \/ x[2] = NoTime \/ (x[1] = 2 /\ x[2] = 0)} }

EntryLists == UNION {[1..k -> Entries] : k \in 0..MaxEntries}

\* processor.py:210-262  deregistered_at <= current_time, or
\* expires_at < current_time
DroppedByTime(entry) ==
  \/ entry.deregistered_at # NoTime /\ entry.deregistered_at <= Now
  \/ entry.expires_at # NoTime /\ entry.expires_at < Now

\* processor.py:161, main.py:287  sources[uid]: the entries of a uid, in order
SourcesOf(entries, uid) ==
  SelectSeq(entries, LAMBDA e : UidOf(e.hotkey) = uid)

\* processor.py:190-284  combined_positions of one miner: every retained
\* entry under the key "{pool_id}#{len(combined_positions)}"
ProcessorPositions(miner_entries) ==
  LET kept == SelectSeq(miner_entries, LAMBDA e : ~DroppedByTime(e))
  IN [i \in 1..Len(kept) |->
        [key |-> << kept[i].pool_id, i - 1 >>,
         amount |-> kept[i].amount,
         lockDays |-> kept[i].lock_days,
         pool_id |-> kept[i].pool_id]]

RECURSIVE SumAmount(_)
SumAmount(seq) ==
  IF seq = << >> THEN 0 ELSE Head(seq).amount + SumAmount(Tail(seq))

RECURSIVE MaxLock(_)
MaxLock(seq) ==
  IF seq = << >> THEN 0
  ELSE LET m == MaxLock(Tail(seq))
       IN IF Head(seq).lock_days > m THEN Head(seq).lock_days ELSE m

\* main.py:297-306  combined_positions of one miner: every entry is added
\* into the one position "default" (amounts summed, longest lock kept)
MainPositions(miner_entries) ==
  IF miner_entries = << >> THEN << >>
  ELSE << [key |-> << "default", -1 >>,
           amount |-> SumAmount(miner_entries),
           lockDays |-> MaxLock(miner_entries),
           pool_id |-> "default"] >>

\* scoring.py:21  settings.pool_weights.get(pool_id, 1.0), where pool_id is
\* the KEY of the position in the mapping handed to score_entry: "A#0" is
\* written << "A", 0 >> and a plain pool id p is written << p, -1 >>
LookupPoolWeight(pool_weights, position) ==
  IF position.key[2] = -1 /\ position.key[1] \in DOMAIN pool_weights
  THEN pool_weights[position.key[1]] ELSE PoolWeightUnit

\* scoring.py:19-33  raw_total, in units of
\* 1 / (PoolWeightUnit * max_lock_days)
RECURSIVE RawTotal(_, _)
RawTotal(positions, pool_weights) ==
  IF positions = << >> THEN 0
  ELSE LET p == Head(positions)
           boosted == IF p.lockDays < MaxLockDays THEN p.lockDays
                      ELSE MaxLockDays
       IN LookupPoolWeight(pool_weights, p) * p.amount * boosted
            + RawTotal(Tail(positions), pool_weights)

\* scoring.py:55  1.0 - math.exp(-raw_total / temperature) for the
\* temperature ScoreTemperature, in hundredths rounded to nearest: entry
\* k + 1 is the value at raw_total / temperature = k / 8
ExpTable ==
  << 0, 12, 22, 31, 39, 46, 53, 58, 63, 68, 71, 75, 78, 80, 83, 85, 86,
     88, 89, 91, 92, 93, 94, 94, 95, 96, 96, 97, 97, 97, 98, 98, 98, 98,
     99, 99, 99, 99, 99, 99, 99 >>

\* scoring.py:45-59  the branch on settings.score_temperature, in hundredths
Transformed(raw_total, temperature) ==
  IF temperature <= 0
  THEN IF raw_total >= RawUnit THEN ScoreUnit
       ELSE raw_total * (ScoreUnit \div RawUnit)
  ELSE IF raw_total >= Len(ExpTable) THEN ScoreUnit
       ELSE ExpTable[raw_total + 1]

\* scoring.py:13-62  score_entry: the score in hundredths, or the
\* AttributeError of settings.score_temperature when the settings object has
\* no such attribute (config.py:18-185 declares none)
score_entry(positions, settings) ==
  LET raw_total == RawTotal(positions, settings.pool_weights)
  IN IF raw_total <= 0 THEN [raised |-> FALSE, score |-> 0]
     ELSE IF ~settings.has_score_temperature
          THEN [raised |-> TRUE, score |-> 0]
          ELSE [raised |-> FALSE,
                score |-> Transformed(raw_total, settings.score_temperature)]

RECURSIVE TotalAmount(_)
TotalAmount(positions) ==
  IF positions = << >> THEN 0
  ELSE Head(positions).amount + TotalAmount(Tail(positions))

\* processor.py:430-461  the score of a miner with positions: 0.0 under the
\* minimum of total assets, the scorer's answer otherwise
ScoreOf(positions, settings) ==
  IF TotalAmount(positions) < MinTotalAssets
  THEN [raised |-> FALSE, score |-> 0]
  ELSE score_entry(positions, settings)

\* config.py:18-185 and the test settings: pool_weights as epoch_runner.py
\* 329-355 injects them, and score_temperature absent (ValidatorSettings)
\* or present (model_copy(update={"score_temperature": ...}))
ProcessSettings ==
  { [pool_weights |-> ("A" :> 1) @@ ("B" :> 1),
     has_score_temperature |-> h,
     score_temperature |-> IF h THEN ScoreTemperature ELSE 0] :
      h \in BOOLEAN }

\* processor.py:173  hotkey and hotkey in deregistered_hotkeys
IgnoresDeregisteredSet(hotkey, deregistered_hotkeys) == FALSE
IsDeregistered(hotkey, deregistered_hotkeys) ==
  hotkey \in deregistered_hotkeys

(* processor.py:80-95  a caller hands process_entries its arguments *)
ProcessCall ==
  /\ call.fn = "none"
  /\ \E entries \in EntryLists, deregistered_hotkeys \in {{}, {"hk1"}},
          settings \in ProcessSettings :
       call' = [fn |-> "process_entries", status |-> "called",
                module |-> "none", entries |-> entries,
                deregistered_hotkeys |-> deregistered_hotkeys,
                settings |-> settings,
                positions |-> EmptyMap, scores |-> EmptyMap]
  /\ UNCHANGED program

(* processor.py:96-476  process_entries of processor.py returns *)
ProcessorReturn ==
  /\ call.fn = "process_entries"
  /\ call.status = "called"
  /\ LET uids == {UidOf(call.entries[i].hotkey) :
                   i \in 1..Len(call.entries)}
         hotkey(uid) == CHOOSE h \in Hotkeys : UidOf(h) = uid
         deregistered(uid) ==
           IsDeregistered(hotkey(uid), call.deregistered_hotkeys)
         positions ==
           [uid \in uids |->
              IF deregistered(uid) THEN << >>
              ELSE ProcessorPositions(SourcesOf(call.entries, uid))]
         scored == {uid \in uids :
                      deregistered(uid) \/ positions[uid] # << >>}
         answer(uid) == ScoreOf(positions[uid], call.settings)
         raised == \E uid \in scored :
                     ~deregistered(uid) /\ answer(uid).raised
     IN call' = [call EXCEPT
                   !.status = IF raised THEN "raised" ELSE "returned",
                   !.module = "processor",
                   !.positions = positions,
                   !.scores =
                      IF raised THEN EmptyMap
                      ELSE [uid \in scored |->
                              IF deregistered(uid) THEN 0
                              ELSE answer(uid).score]]
  /\ UNCHANGED program

(* main.py:207-476  process_entries of main.py returns *)
MainReturn ==
  /\ call.fn = "process_entries"
  /\ call.status = "called"
  /\ LET uids == {UidOf(call.entries[i].hotkey) :
                   i \in 1..Len(call.entries)}
         positions ==
           [uid \in uids |-> MainPositions(SourcesOf(call.entries, uid))]
         scored == {uid \in uids : positions[uid] # << >>}
         answer(uid) == score_entry(positions[uid], call.settings)
         raised == \E uid \in scored : answer(uid).raised
     IN call' = [call EXCEPT
                   !.status = IF raised THEN "raised" ELSE "returned",
                   !.module = "main",
                   !.positions = positions,
                   !.scores =
                      IF raised THEN EmptyMap
                      ELSE [uid \in scored |-> answer(uid).score]]
  /\ UNCHANGED program

InitProcess == InitPublish /\ chain_block = 0

NextProcess ==
  \/ ProcessCall
  \/ ProcessorReturn
  \/ MainReturn

SpecProcess == InitProcess /\ [][NextProcess]_vars

(* ------------------------------------------------------------------ *)
(* run_epoch called on its own: epoch_runner.py, and main.py with the  *)
(* daemon's caching of its result                                      *)
(* ------------------------------------------------------------------ *)
\* an epoch_version string such as "2024-11-08T00:00:00Z" of week w
EpochString(w) ==
  << ToString(w), "T", "00", ":", "00", ":", "00", "Z" >>

\* epoch_runner.py:391  .replace(':', '-').replace('T', '_').replace('Z', '')
RECURSIVE Sanitize(_)
Sanitize(s) ==
  IF s = << >> THEN << >>
  ELSE LET c == Head(s)
       IN IF c = "Z" THEN Sanitize(Tail(s))
          ELSE << IF c = ":" THEN "-" ELSE IF c = "T" THEN "_" ELSE c >>
               \o Sanitize(Tail(s))

\* epoch_runner.py:389-392  log file name, up to the timestamp
LogFileName(w) == << "weights_" >> \o Sanitize(EpochString(w)) \o << "_" >>

\* the epoch_version fields of the entries of a response (NoWeek: absent)
VersionLists == UNION {[1..k -> 0..MaxWeek] : k \in 0..MaxEntries}

CountOf(versions, v) ==
  Cardinality({i \in 1..Len(versions) : versions[i] = v})

\* epoch_runner.py:296-301  Counter(...).most_common(1)[0][0]: the most
\* frequent version, the first one met among equally frequent ones
MostCommon(versions) ==
  LET present == {i \in 1..Len(versions) : versions[i] # NoWeek}
      best == {i \in present :
                 \A j \in present :
                   CountOf(versions, versions[j])
                     <= CountOf(versions, versions[i])}
      first == CHOOSE i \in best : \A j \in best : i <= j
  IN versions[first]

\* epoch_runner.py:277-322  the epoch version the pass goes on with
KeepsRequestedEpoch(requested, versions) == requested
AdoptedEpoch(requested, versions) ==
  LET epoch_versions ==
        {versions[i] : i \in 1..Len(versions)} \ {NoWeek}
      actual_epoch_version ==
        IF Cardinality(epoch_versions) = 1
        THEN CHOOSE v \in epoch_versions : TRUE
        ELSE IF Cardinality(epoch_versions) > 1
        THEN MostCommon(versions)
        ELSE NoWeek
  IN IF actual_epoch_version # NoWeek /\ actual_epoch_version # requested
     THEN actual_epoch_version
     ELSE requested

(* epoch_runner.py:68-86, main.py:501-515  a caller hands run_epoch its *)
(* arguments                                                            *)
RunEpochEnter ==
  /\ call.fn = "none"
  /\ \E module \in {"epoch_runner", "main"}, requested \in 1..MaxWeek,
        dry \in BOOLEAN :
       call' = [fn |-> "run_epoch", module |-> module, step |-> "called",
                requested |-> requested, dry_run |-> dry,
                versions |-> << >>, scored |-> FALSE,
                epoch_version |-> requested,
                publish_epoch |-> NoWeek, result_epoch |-> NoWeek,
                log_epoch |-> NoWeek, log_file |-> << >>,
                leaderboard_epoch |-> NoWeek,
                cached_epoch_version |-> NoWeek,
                republish_epoch |-> NoWeek,
                verified |-> "none", error |-> "none",
                dereg |-> "none", dereg_epoch |-> NoWeek,
                deregistered_hotkeys |-> {},
                processed_entries |-> -1, passed_deregistered |-> {},
                weights_from |-> "none", set_weights_calls |-> 0]
  /\ UNCHANGED program

\* what GET /v1/verified-miners can come to: a 2xx answer, HTTP 403, another
\* HTTP error status, or no connection
VerifierAnswers == {"ok", "403", "500", "request_error"}

\* what GET /v1/deregistered-hotkeys can come to: a 2xx answer with a
\* "hotkeys" list, an HTTP error status, no connection, or a body that is
\* not a JSON object with a list of hotkeys
DeregAnswers == {"ok", "http_error", "request_error", "malformed"}

\* epoch_runner.py:229-275, main.py:583-610  raise_for_status() and the
\* except clauses: every answer but a 2xx one ends run_epoch with an error
VerifierFatalBut403(answer) == answer \notin {"ok", "403"}
VerifierFatal(answer) == answer # "ok"

\* epoch_runner.py:215-228  the inner except clauses log a warning and
\* raise nothing
DeregFatalOnHttpError(answer) == answer = "http_error"
DeregFatal(answer) == FALSE

\* epoch_runner.py:199-204  deregistered_hotkeys starts empty and is
\* assigned only after raise_for_status() and json() went through
DeregisteredSet(answer, hotkeys) == IF answer = "ok" THEN hotkeys ELSE {}

\* epoch_runner.py:201  params={"epoch_version": epoch_version}, evaluated
\* before the returned epoch is looked at (epoch_runner.py:277)
DeregistrationQueryEpoch(requested, versions) == requested

(* epoch_runner.py:144-322  the verifier answers both requests; the       *)
(* returned epoch is adopted.  main.py:575-659  one request only, and the *)
(* adoption lines of main.py follow a raise inside the last except clause *)
(* and never run                                                          *)
FetchEntries ==
  /\ call.fn = "run_epoch"
  /\ call.step = "called"
  /\ \E answer \in VerifierAnswers, versions \in VersionLists,
        dereg \in DeregAnswers, hotkeys \in SUBSET {"hk1"} :
       IF VerifierFatal(answer)
       THEN call' = [call EXCEPT !.step = "failed", !.verified = answer,
                                 !.error = "RuntimeError"]
       ELSE IF call.module = "epoch_runner" /\ DeregFatal(dereg)
       THEN call' = [call EXCEPT !.step = "failed", !.verified = answer,
                                 !.dereg = dereg,
                                 !.dereg_epoch =
                                    DeregistrationQueryEpoch(call.requested,
                                                             versions),
                                 !.error = "RuntimeError"]
       ELSE IF call.module = "epoch_runner"
       THEN call' = [call EXCEPT
                       !.step = "fetched",
                       !.verified = answer,
                       !.versions = versions,
                       !.dereg = dereg,
                       !.dereg_epoch =
                          DeregistrationQueryEpoch(call.requested, versions),
                       !.deregistered_hotkeys =
                          DeregisteredSet(dereg, hotkeys),
                       !.epoch_version =
                          AdoptedEpoch(call.requested, versions)]
       ELSE call' = [call EXCEPT
                       !.step = "fetched",
                       !.verified = answer,
                       !.versions = versions]
  /\ UNCHANGED program

(* epoch_runner.py:357-374, main.py:665-681  process_entries scores the   *)
(* entries and, outside dry-run, calls publish when there are scores;     *)
(* publish calls set_weights unless the cooldown check holds it back      *)
\* processor.py:482-501, main.py:451-470  if scores: if dry_run: _normalize
\* else: publish_fn
CallsPublishInDryRun(dry, scored) == scored
CallsPublish(dry, scored) == scored /\ ~dry

ProcessAndPublish ==
  /\ call.fn = "run_epoch"
  /\ call.step = "fetched"
  /\ \E scored \in BOOLEAN, submitted \in BOOLEAN :
       /\ scored => call.versions # << >>
       /\ submitted => CallsPublish(call.dry_run, scored)
       /\ call' = [call EXCEPT
                     !.step = "processed",
                     !.scored = scored,
                     !.processed_entries = Len(call.versions),
                     !.passed_deregistered = call.deregistered_hotkeys,
                     !.weights_from =
                        IF ~scored THEN "empty"
                        ELSE IF CallsPublish(call.dry_run, scored)
                        THEN "publish" ELSE "_normalize",
                     !.set_weights_calls = IF submitted THEN 1 ELSE 0,
                     !.publish_epoch =
                        IF CallsPublish(call.dry_run, scored)
                        THEN call.epoch_version ELSE NoWeek,
                     !.result_epoch = call.epoch_version]
  /\ UNCHANGED program

(* epoch_runner.py:383-451, main.py:690-724  the ranking is written to    *)
(* the log file                                                           *)
WriteRanking ==
  /\ call.fn = "run_epoch"
  /\ call.step = "processed"
  /\ call' = [call EXCEPT
                !.step = "logged",
                !.log_epoch = call.epoch_version,
                !.log_file = LogFileName(call.epoch_version)]
  /\ UNCHANGED program

(* epoch_runner.py:453-525  the ranking goes to the leaderboard (outside  *)
(* dry-run) and run_epoch returns its result                              *)
RunEpochReturn ==
  /\ call.fn = "run_epoch"
  /\ call.step = "logged"
  /\ call' = [call EXCEPT
                !.step = "returned",
                !.leaderboard_epoch =
                   IF call.module = "epoch_runner" /\ ~call.dry_run
                   THEN call.epoch_version ELSE NoWeek]
  /\ UNCHANGED program

(* main.py:1010-1021  the daemon caches the result of its weekly pass *)
CacheResult ==
  /\ call.fn = "run_epoch"
  /\ call.module = "main"
  /\ call.step = "returned"
  /\ call' = [call EXCEPT
                !.step = "cached",
                !.cached_epoch_version = call.result_epoch]
  /\ UNCHANGED program

(* main.py:1060-1076  a later tempo boundary of the week: publish is      *)
(* called with epoch_version = cached_epoch_version                       *)
Republish ==
  /\ call.fn = "run_epoch"
  /\ call.step = "cached"
  /\ call' = [call EXCEPT
                !.step = "republished",
                !.republish_epoch = call.cached_epoch_version]
  /\ UNCHANGED program

InitRunEpoch == InitPublish /\ chain_block = 0

NextRunEpoch ==
  \/ RunEpochEnter
  \/ FetchEntries
  \/ ProcessAndPublish
  \/ WriteRanking
  \/ RunEpochReturn
  \/ CacheResult
  \/ Republish

SpecRunEpoch == InitRunEpoch /\ [][NextRunEpoch]_vars

(* ------------------------------------------------------------------ *)
(* query_all_parent_vaults called on its own: pool_weights.py          *)
(* ------------------------------------------------------------------ *)
Vaults == 1..NumVaults

\* what one query_pool_weights call can come to: decoded weights, HTTP 429,
\* another HTTP error status, or any other exception
RpcAnswers == {"ok", "429", "http_error", "error"}

\* pool_weights.py:292-305  a further attempt follows a 429 answer that was
\* not the last attempt; every other branch breaks or runs out of attempts
RetriesOnHttpError(answer, attempt) ==
  answer \in {"429", "http_error"} /\ attempt < RetryAttempts - 1
Retries(answer, attempt) ==
  answer = "429" /\ attempt < RetryAttempts - 1

\* pool_weights.py:253-274  combined_weights starts empty
QueryCall ==
  /\ call.fn = "none"
  /\ call' = [fn |-> "query_all_parent_vaults", status |-> "running",
              idx |-> 1, attempt |-> 0,
              combined_weights |-> << >>,
              tries |-> [v \in Vaults |-> 0],
              answered |-> [v \in Vaults |-> "none"],
              retried_after |-> [v \in Vaults |-> {}]]
  /\ UNCHANGED program

\* pool_weights.py:282-317  one pass of the retry loop for the vault at idx
QueryAttempt ==
  /\ call.fn = "query_all_parent_vaults"
  /\ call.status = "running"
  /\ call.idx \in Vaults
  /\ \E answer \in RpcAnswers, bps \in 0..MaxBps :
       LET v == call.idx
           again == Retries(answer, call.attempt)
       IN call' = [call EXCEPT
                     !.tries[v] = @ + 1,
                     !.answered[v] = answer,
                     !.retried_after[v] =
                        IF again THEN @ \cup {answer} ELSE @,
                     !.combined_weights =
                        IF answer = "ok" THEN (v :> bps) @@ @ ELSE @,
                     !.attempt = IF again THEN @ + 1 ELSE 0,
                     !.idx = IF again THEN @ ELSE @ + 1]
  /\ UNCHANGED program

\* pool_weights.py:319  return combined_weights
QueryReturn ==
  /\ call.fn = "query_all_parent_vaults"
  /\ call.status = "running"
  /\ call.idx = NumVaults + 1
  /\ call' = [call EXCEPT !.status = "returned"]
  /\ UNCHANGED program

InitQuery == InitPublish /\ chain_block = 0

NextQuery ==
  \/ QueryCall
  \/ QueryAttempt
  \/ QueryReturn

SpecQuery == InitQuery /\ [][NextQuery]_vars

(* ------------------------------------------------------------------ *)
(* get_pool_weights_for_scoring called again and again over the cache   *)
(* file: pool_weights.py                                               *)
(* ------------------------------------------------------------------ *)
\* raw target weights (basis points) of the known pools, as decoded from the
\* vaults' answers; << >> when no vault gave any
RawMaps == UNION {[S -> 0..MaxBps] : S \in SUBSET PoolIds}

\* sum(weights.values())
TotalWeight(weights) == SumOver(weights, DOMAIN weights)

\* pool_weights.py:360, 400, 420  {pid: w / total_weight for pid, w in ...}
NormalizePools(weights) ==
  [p \in DOMAIN weights |-> [n |-> weights[p], d |-> TotalWeight(weights)]]

\* settings.pool_weights as it may be configured: empty, percentages, and
\* one multiplier of 1.0 per pool
FallbackTables ==
  { << >>,
    ("A" :> [n |-> 60, d |-> 1]) @@ ("B" :> [n |-> 40, d |-> 1]),
    ("A" :> [n |-> 1, d |-> 1]) @@ ("B" :> [n |-> 1, d |-> 1]) }

\* pool_weights.py:428-431  w / 100.0 if w > 1.0 else w
FallbackValue(w) == IF w.n > w.d THEN [n |-> w.n, d |-> w.d * 100] ELSE w

FallbackWeights(table) == [p \in DOMAIN table |-> FallbackValue(table[p])]

\* the cache file: absent, holding one complete JSON document, or opened
\* for writing and not yet closed (truncated or partly written)
NoCache == [state |-> "absent", weights |-> << >>, timestamp |-> NoTime]
PartialFile == [state |-> "partial", weights |-> << >>, timestamp |-> NoTime]

\* pool_weights.py:49-76  None when the file is missing or json.load fails
LoadCache(file) == IF file.state = "complete" THEN file ELSE NoCache

\* pool_weights.py:107-143  age < timedelta(hours=CACHE_TTL_HOURS)
IsCacheValidNever(cache_data, now) == FALSE
IsCacheValid(cache_data, now) ==
  /\ cache_data.state = "complete"
  /\ now - cache_data.timestamp < CacheTtl

NoLive == [weights |-> << >>, at |-> NoTime]

NoResult ==
  [status |-> "none", source |-> "none", weights |-> << >>, rpc |-> 0,
   force_refresh |-> FALSE, failed |-> FALSE, at |-> NoTime,
   start_cache |-> NoCache, live_before |-> NoLive]

\* pool_weights.py:408-438  the except clause: the cache of any age, else
\* the fallback table, else RuntimeError
FailureResult(pending, file, table) ==
  LET cache_data == LoadCache(file)
  IN IF cache_data.state = "complete" /\ TotalWeight(cache_data.weights) > 0
     THEN [pending EXCEPT !.status = "returned", !.source = "stale_cache",
                          !.failed = TRUE,
                          !.weights = NormalizePools(cache_data.weights)]
     ELSE IF table # << >>
     THEN [pending EXCEPT !.status = "returned", !.source = "fallback",
                          !.failed = TRUE,
                          !.weights = FallbackWeights(table)]
     ELSE [pending EXCEPT !.status = "raised", !.source = "none",
                          !.failed = TRUE]

(* the process starts with its settings and no cache file *)
OracleStart ==
  /\ call.fn = "none"
  /\ \E table \in FallbackTables :
       call' = [fn |-> "get_pool_weights_for_scoring", phase |-> "idle",
                fallback_weights |-> table, file |-> NoCache, now |-> 0,
                combined |-> << >>, pending |-> NoResult,
                live |-> NoLive, last |-> NoResult]
  /\ UNCHANGED program

(* time passes between two calls *)
Tick ==
  /\ call.fn = "get_pool_weights_for_scoring"
  /\ call.phase = "idle"
  /\ call.now < MaxTime
  /\ call' = [call EXCEPT !.now = @ + 1]
  /\ UNCHANGED program

(* pool_weights.py:348-372  a valid cache with a positive total is returned *)
(* normalised; otherwise the chain is queried                              *)
GetPoolWeights ==
  /\ call.fn = "get_pool_weights_for_scoring"
  /\ call.phase = "idle"
  /\ \E force_refresh \in BOOLEAN :
       LET cache_data == LoadCache(call.file)
           pending == [NoResult EXCEPT
                         !.force_refresh = force_refresh,
                         !.at = call.now,
                         !.start_cache = cache_data,
                         !.live_before = call.live]
       IN IF /\ ~force_refresh
             /\ IsCacheValid(cache_data, call.now)
             /\ TotalWeight(cache_data.weights) > 0
          THEN call' = [call EXCEPT
                          !.last =
                             [pending EXCEPT
                                !.status = "returned",
                                !.source = "cache",
                                !.weights =
                                   NormalizePools(cache_data.weights)]]
          ELSE call' = [call EXCEPT !.phase = "querying",
                                    !.pending = pending]
  /\ UNCHANGED program

(* pool_weights.py:378-383  query_all_parent_vaults: one request per vault *)
(* at least (retries are not counted here); what it returns may be        *)
(* partial or empty                                                       *)
QueryRound ==
  /\ call.fn = "get_pool_weights_for_scoring"
  /\ call.phase = "querying"
  /\ \E weights \in RawMaps :
       call' = [call EXCEPT !.phase = "queried",
                            !.combined = weights,
                            !.pending.rpc = NumVaults]
  /\ UNCHANGED program

(* pool_weights.py:385-389, 97-98  nothing retrieved: the except clause;  *)
(* otherwise _save_cache opens the cache file for writing                 *)
SaveOpen ==
  /\ call.fn = "get_pool_weights_for_scoring"
  /\ call.phase = "queried"
  /\ IF call.combined = << >>
     THEN call' = [call EXCEPT
                     !.phase = "idle",
                     !.pending = NoResult,
                     !.last = FailureResult(call.pending, call.file,
                                            call.fallback_weights)]
     ELSE call' = [call EXCEPT !.phase = "saving",
                               !.file = PartialFile,
                               !.live = NoLive]
  /\ UNCHANGED program

(* pool_weights.py:97-98, 391-406  the document is written and the file   *)
(* closed; a zero total raises into the except clause, any other result   *)
(* is normalised and returned                                             *)
SaveClose ==
  /\ call.fn = "get_pool_weights_for_scoring"
  /\ call.phase = "saving"
  /\ LET written == [state |-> "complete", weights |-> call.combined,
                     timestamp |-> call.now]
     IN IF TotalWeight(call.combined) = 0
        THEN call' = [call EXCEPT
                        !.phase = "idle",
                        !.file = written,
                        !.combined = << >>,
                        !.pending = NoResult,
                        !.last = FailureResult(call.pending, written,
                                               call.fallback_weights)]
        ELSE call' = [call EXCEPT
                        !.phase = "idle",
                        !.file = written,
                        !.combined = << >>,
                        !.pending = NoResult,
                        !.live = [weights |-> NormalizePools(call.combined),
                                  at |-> call.now],
                        !.last =
                           [call.pending EXCEPT
                              !.status = "returned",
                              !.source = "live",
                              !.weights = NormalizePools(call.combined)]]
  /\ UNCHANGED program

(* the process dies in the middle of a call and is started again *)
Crash ==
  /\ call.fn = "get_pool_weights_for_scoring"
  /\ call.phase \in {"querying", "queried", "saving"}
  /\ call' = [call EXCEPT
                !.phase = "idle",
                !.combined = << >>,
                !.pending = NoResult,
                !.last = [call.pending EXCEPT !.status = "crashed"]]
  /\ UNCHANGED program

InitOracle == InitPublish /\ chain_block = 0

NextOracle ==
  \/ OracleStart
  \/ Tick
  \/ GetPoolWeights
  \/ QueryRound
  \/ SaveOpen
  \/ SaveClose
  \/ Crash

SpecOracle == InitOracle /\ [][NextOracle]_vars

(* ------------------------------------------------------------------ *)
(* publish after set_weights answered: weights.py                      *)
(* ------------------------------------------------------------------ *)
UpperLetters ==
  << "A", "B", "C", "D", "E", "F", "G", "H", "I", "J", "K", "L", "M",
     "N", "O", "P", "Q", "R", "S", "T", "U", "V", "W", "X", "Y", "Z" >>
LowerLetters ==
  << "a", "b", "c", "d", "e", "f", "g", "h", "i", "j", "k", "l", "m",
     "n", "o", "p", "q", "r", "s", "t", "u", "v", "w", "x", "y", "z" >>

\* str.lower() on one character
LowerChar(c) ==
  IF \E i \in 1..26 : UpperLetters[i] = c
  THEN LowerLetters[CHOOSE i \in 1..26 : UpperLetters[i] = c]
  ELSE c

\* str(message).lower()
LowerString(s) == [i \in 1..Len(s) |-> LowerChar(s[i])]

\* pattern in s
Contains(s, pattern) ==
  \E i \in 1..(Len(s) - Len(pattern) + 1) :
    SubSeq(s, i, i + Len(pattern) - 1) = pattern

TooSoon == << "t", "o", "o", " ", "s", "o", "o", "n" >>
Cooldown == << "c", "o", "o", "l", "d", "o", "w", "n" >>

\* the words the chain's answer message is made of here
Words ==
  { << "T", "o", "o" >>, << " ", "s", "O", "O", "N" >>,
    << "s", "o", "o", "n" >>, << "C", "O", "O", "L" >>,
    << "d", "o", "w", "n" >>, << " ", "e", "r", "r", "o", "r" >> }

RECURSIVE MessagesOf(_)
MessagesOf(k) ==
  IF k = 0 THEN {<< >>}
  ELSE MessagesOf(k - 1)
         \cup {m \o w : m \in MessagesOf(k - 1), w \in Words}

Messages == MessagesOf(MaxWords)

\* weights.py:394  "too soon" in str(message).lower() or "cooldown" in ...
IsCooldownMessageCaseSensitive(message) ==
  Contains(message, TooSoon) \/ Contains(message, Cooldown)
IsCooldownMessage(message) ==
  \/ Contains(LowerString(message), TooSoon)
  \/ Contains(LowerString(message), Cooldown)

\* weights.py:371-380  _set_weights_with_timeout returned (success, message)
AnswerCall ==
  /\ call.fn = "none"
  /\ \E success \in BOOLEAN, message \in Messages :
       call' = [fn |-> "publish", status |-> "answered",
                success |-> success, message |-> message,
                returned_weights |-> FALSE]
  /\ UNCHANGED program

\* weights.py:392-410  success or a cooldown message: return weights;
\* anything else: raise RuntimeError
AnswerReturn ==
  /\ call.fn = "publish"
  /\ call.status = "answered"
  /\ IF call.success \/ IsCooldownMessage(call.message)
     THEN call' = [call EXCEPT !.status = "returned",
                               !.returned_weights = TRUE]
     ELSE call' = [call EXCEPT !.status = "raised"]
  /\ UNCHANGED program

InitAnswer == InitPublish /\ chain_block = 0

NextAnswer ==
  \/ AnswerCall
  \/ AnswerReturn

SpecAnswer == InitAnswer /\ [][NextAnswer]_vars

(* ------------------------------------------------------------------ *)
(* score_entry called for two miners, and their scores composed        *)
(* ------------------------------------------------------------------ *)
\* one miner's verifier entries, none of them expired or deregistered
ScoreEntries ==
  { [hotkey |-> "hk1", pool_id |-> p, amount |-> a, lock_days |-> l,
     expires_at |-> NoTime, deregistered_at |-> NoTime] :
      p \in PoolIds, a \in 1..2, l \in 1..(MaxLockDays + 1) }

ScoreEntryLists == UNION {[1..k -> ScoreEntries] : k \in 1..MaxEntries}

\* pool_weights.py:442-470  the oracle's answer: a weight for some pools
PoolWeightMaps ==
  UNION {[S -> 0..PoolWeightUnit] : S \in SUBSET PoolIds}

\* settings without score_temperature, with a non-positive and with a
\* positive one
ScoreSettings ==
  { [pool_weights |-> w, has_score_temperature |-> t >= 0,
     score_temperature |-> IF t >= 0 THEN t ELSE 0] :
      w \in PoolWeightMaps, t \in {-1, 0, ScoreTemperature} }

\* the same entries for a second miner, every amount doubled
Doubled(entries) ==
  [i \in 1..Len(entries) |->
     [entries[i] EXCEPT !.hotkey = "hk2", !.amount = 2 * @]]

(* epoch_runner.py:329-368  the pass has the oracle's pool weights in its
   settings and the entries of two miners *)
ScoreCall ==
  /\ call.fn = "none"
  /\ \E entries \in ScoreEntryLists, settings \in ScoreSettings :
       call' = [fn |-> "score_entry", step |-> "called",
                settings |-> settings,
                entries |-> (1 :> entries) @@ (2 :> Doubled(entries)),
                positions |-> EmptyMap, raw_total |-> EmptyMap,
                raised |-> FALSE, scores |-> EmptyMap,
                weights |-> EmptyMap]
  /\ UNCHANGED program

(* processor.py:266-284, 460-461 and scoring.py:13-62  the positions of
   each miner are built and scored *)
ScoreMiners ==
  /\ call.fn = "score_entry"
  /\ call.step = "called"
  /\ LET positions == [uid \in {1, 2} |->
                         ProcessorPositions(call.entries[uid])]
         answer(uid) == score_entry(positions[uid], call.settings)
         raised == \E uid \in {1, 2} : answer(uid).raised
     IN call' = [call EXCEPT
                   !.step = "scored",
                   !.positions = positions,
                   !.raw_total =
                      [uid \in {1, 2} |->
                         RawTotal(positions[uid],
                                  call.settings.pool_weights)],
                   !.raised = raised,
                   !.scores = IF raised THEN EmptyMap
                              ELSE [uid \in {1, 2} |-> answer(uid).score]]
  /\ UNCHANGED program

(* processor.py:482-497 and weights.py:30-134  the scores are composed *)
ComposeWeights ==
  /\ call.fn = "score_entry"
  /\ call.step = "scored"
  /\ ~call.raised
  /\ call' = [call EXCEPT
               !.step = "composed",
               !.weights = _normalize(call.scores, TraderUid,
                                      TraderRewardsPoolWeight, NoUid)]
  /\ UNCHANGED program

InitScore == InitPublish /\ chain_block = 0

NextScore ==
  \/ ScoreCall
  \/ ScoreMiners
  \/ ComposeWeights

SpecScore == InitScore /\ [][NextScore]_vars

(* ------------------------------------------------------------------ *)
(* epoch_start called on its own                                       *)
(* ------------------------------------------------------------------ *)
\* UTC reference instants: a day, counted from a Monday, and a time of day
References ==
  { [day |-> d, slot |-> s] :
      d \in 0..(7 * (MaxWeek + 1) - 1), s \in 0..(SlotsPerDay - 1) }

\* datetime.weekday(), Monday = 0
Weekday(reference) == reference.day % 7

\* epoch.py:16  (weekday - 4) % 7
DaysSinceMonday(weekday) == weekday % 7
DaysSinceFriday(weekday) == (weekday - 4) % 7

(* epoch.py:12-14  a caller asks for the epoch of a reference instant *)
EpochStartCall ==
  /\ call.fn = "none"
  /\ \E reference \in References :
       call' = [fn |-> "epoch_start", status |-> "called",
                reference |-> reference, start |-> None]
  /\ UNCHANGED program

(* epoch.py:15-26  midnight of the reference's day, less the days since
   Friday *)
EpochStartReturn ==
  /\ call.fn = "epoch_start"
  /\ call.status = "called"
  /\ LET days_since_friday == DaysSinceFriday(Weekday(call.reference))
     IN call' = [call EXCEPT
                   !.status = "returned",
                   !.start = Some([day |-> call.reference.day
                                             - days_since_friday,
                                   slot |-> 0])]
  /\ UNCHANGED program

InitEpochStart == InitPublish /\ chain_block = 0

NextEpochStart ==
  \/ EpochStartCall
  \/ EpochStartReturn

SpecEpochStart == InitEpochStart /\ [][NextEpochStart]_vars

(* ------------------------------------------------------------------ *)
(* __spec_version__ computed for two version strings                   *)
(* ------------------------------------------------------------------ *)
\* __version__.split("."), every part already read as a number: three
\* parts, one part, or two
MinorValues == {0, 1, 99, 100}
VersionSplits ==
  { << major, minor, patch >> :
      major \in 0..MaxMajor, minor \in MinorValues, patch \in 0..MaxPatch }
    \cup { << num >> : num \in {0, 5, 100, 111} }
    \cup { << major, minor >> : major \in 0..MaxMajor, minor \in {0, 1} }

\* __init__.py:11-15  (1000 * major) + (10 * minor) + (1 * patch)
EncodeHundreds(major, minor, patch) == 1000 * major + 100 * minor + patch
Encode(major, minor, patch) == 1000 * major + 10 * minor + patch

\* __init__.py:8-37  __spec_version__ of the split version string
spec_version(version_split) ==
  IF Len(version_split) = 3
  THEN Encode(version_split[1], version_split[2], version_split[3])
  ELSE IF Len(version_split) = 1
  THEN LET num == version_split[1]
       IN Encode(num \div 100, (num % 100) \div 10, num % 10)
  ELSE Encode(IF Len(version_split) > 0 THEN version_split[1] ELSE 0,
              IF Len(version_split) > 1 THEN version_split[2] ELSE 0,
              IF Len(version_split) > 2 THEN version_split[3] ELSE 0)

(* __init__.py:3, 8  two releases of the package, each with its version *)
VersionCall ==
  /\ call.fn = "none"
  /\ \E a \in VersionSplits, b \in VersionSplits :
       call' = [fn |-> "__spec_version__", status |-> "called",
                a |-> a, b |-> b, key_a |-> -1, key_b |-> -1]
  /\ UNCHANGED program

(* __init__.py:8-37, weights.py:363  each release computes the version_key
   it submits *)
VersionReturn ==
  /\ call.fn = "__spec_version__"
  /\ call.status = "called"
  /\ call' = [call EXCEPT !.status = "returned",
                          !.key_a = spec_version(call.a),
                          !.key_b = spec_version(call.b)]
  /\ UNCHANGED program

InitVersion == InitPublish /\ chain_block = 0

NextVersion ==
  \/ VersionCall
  \/ VersionReturn

SpecVersion == InitVersion /\ [][NextVersion]_vars

(* ------------------------------------------------------------------ *)
(* Properties                                                          *)
(* ------------------------------------------------------------------ *)
Composed(f) ==
  _normalize(f.scores.vals, f.trader_pool_uid,
             IF f.trader_pool_uid # NoUid THEN TraderRewardsPoolWeight ELSE 0,
             f.owner_hotkey_uid)

\* the running publish call got past the point of the cooldown check
PastCooldownCheck ==
  /\ pc \in {"join", "pub_ret"}
  /\ pub.reason \notin {"nothing", "chain_error", "dry_run", "no_scores"}

Outstanding == zombies + (IF thread = "alive" THEN 1 ELSE 0)

\* C1: when force is false and the metagraph and validator_uid are there, a
\* publish that finds current_block - last_update[validator_uid] < tempo
\* starts no set_weights call and returns the composed weights without
\* error; with both there, the check is skipped only when force is true.
C1_CooldownSuppressesSubmit ==
  PastCooldownCheck =>
    /\ (~pub.force /\ pub.has_metagraph /\ pub.has_validator_uid
          /\ pub.gap < EpochLength)
         => /\ ~pub.submitted
            /\ pub.status = "returned"
            /\ pub.weights = Composed(pub)
    /\ (pub.has_metagraph /\ pub.has_validator_uid /\ ~pub.checked)
         => pub.force

C1_Witness ==
  /\ pc = "pub_ret"
  /\ pub.ctx = "direct"
  /\ ~pub.force
  /\ pub.reason = "cooldown"
  /\ pub.gap = EpochLength - 1
  /\ pub.weights # EmptyMap

\* C2: once the daemon has observed a weekly version different from
\* last_weekly_epoch_version, any set_weights call it starts carries scores
\* computed for the observed week, by that week's epoch pass; never the
\* scores of the previous week.
C2_NoStaleSubmitAfterTransition ==
  (pc = "join" /\ pub.ctx \in {"weekly", "tempo"}) =>
    /\ pub.scores.week = current_weekly_epoch_version
    /\ (current_weekly_epoch_version # last_weekly_epoch_version
          => pub.ctx = "weekly")

C2_Witness ==
  /\ pc = "join"
  /\ pub.ctx = "weekly"
  /\ last_weekly_epoch_version = 1
  /\ current_weekly_epoch_version = 2
  /\ pub.scores.week = 2

\* C3 (as claimed): last_publish_block changes only in a tick in which
\* set_weights succeeded or the submit was suppressed by the cooldown.
C3_PublishBlockOnlyAfterSubmitOrCooldown ==
  [][ last_weight_publish_block' # last_weight_publish_block
        => pub.reason \in {"success", "cooldown", "too_soon"} ]_vars

\* C4 (as claimed): at most one set_weights call issued by the validator is
\* outstanding at any moment.
C4_AtMostOneOutstanding == Outstanding <= 1

C6_WeeklyPassForced ==
  (pc \in {"publish", "join", "pub_ret"} /\ pub.ctx = "weekly"
     /\ pub.reason \notin {"dry_run", "no_scores"})
    => (pub.force /\ pub.reason # "cooldown")

\* C7 (as claimed): at a tempo boundary inside a weekly epoch the daemon
\* re-fetches the roster and recomputes the scores before it submits.
C7_TempoRunsFullPass ==
  (pc \in {"publish", "join"} /\ pub.ctx = "tempo") =>
    (tick_fetched /\ pub.scores.roster = roster)

\* C7 (amended): at a tempo boundary inside a weekly epoch the daemon calls
\* publish on the scores cached by that week's pass, without any request to
\* the verifier in that tick.
C7_TempoPublishesCache ==
  (pc \in {"publish", "join"} /\ pub.ctx = "tempo") =>
    /\ ~tick_fetched
    /\ cached_scores = Some(pub.scores)
    /\ pub.scores.week = last_weekly_epoch_version

C7_Witness ==
  /\ pc = "join"
  /\ pub.ctx = "tempo"
  /\ pub.scores.roster = 3
  /\ roster = 1

\* C8: while the weekly version of now equals last_weekly_epoch_version the
\* daemon sends no request to the verifier, and what a per-tempo publish
\* hands to publish is the score map of that week's pass.
C8_NoRefetchWithinWeek ==
  /\ (pc = "run_epoch" \/ tick_fetched)
       => (now_week # last_weekly_epoch_version
           /\ current_weekly_epoch_version # last_weekly_epoch_version)
  /\ (pub.ctx = "tempo")
       => (~tick_fetched /\ pub.scores.week = cached_epoch_version)

C8_Witness ==
  /\ pc = "publish"
  /\ pub.ctx = "tempo"
  /\ now_week = last_weekly_epoch_version
  /\ ~tick_fetched

\* C9: an exception in a tick never ends the daemon (only a signal does):
\* the handler logs it and sleeps, the loop then starts a new tick, and a
\* failed tick leaves last_weekly_epoch_version and the cached scores,
\* weights and epoch version as they were.
C9_ErrorsAreRecoverable ==
  /\ [](~Running => signalled # "none")
  /\ [][ (pc' = "errsleep" /\ pc # "errsleep")
           => /\ logged' = "error"
              /\ UNCHANGED << last_weekly_epoch_version, cached_scores,
                              cached_weights, cached_epoch_version >> ]_vars
  /\ [][ (pc = "errsleep" /\ pc' # "errsleep")
           => (pc' = "loop" \/ signalled' # "none") ]_vars

C9_Witness ==
  /\ pc = "errsleep"
  /\ logged = "error"
  /\ last_weekly_epoch_version = 1
  /\ current_weekly_epoch_version = 2
  /\ cached_scores # None

\* C10 (as claimed): a SIGINT or SIGTERM received at any point of the loop
\* makes the daemon log the interrupt and exit cleanly, with no set_weights
\* call in flight or started afterwards.
C10_SignalExitsCleanly ==
  signalled # "none" =>
    (pc = "exited" /\ logged = "interrupt" /\ Outstanding = 0)

(* ------------------------------------------------------------------ *)
(* Properties of _normalize                                            *)
(* ------------------------------------------------------------------ *)
Normalized == call.fn = "_normalize" /\ call.status = "returned"

\* weights.py:48-53  the trader weight _normalize works with
ValidatedWeight(w) == IF w < 0 \/ w >= Scale THEN 0 ELSE w

\* sum of the fractions of a weight map, over their largest denominator
\* (every denominator is Scale or miner_total * Scale)
RECURSIVE MaxDen(_, _)
MaxDen(w, S) ==
  IF S = {} THEN Scale
  ELSE LET u == CHOOSE x \in S : TRUE
           m == MaxDen(w, S \ {u})
       IN IF w[u].d > m THEN w[u].d ELSE m

RECURSIVE NumeratorSum(_, _, _)
NumeratorSum(w, S, den) ==
  IF S = {} THEN 0
  ELSE LET u == CHOOSE x \in S : TRUE
       IN w[u].n * (den \div w[u].d) + NumeratorSum(w, S \ {u}, den)

WeightSum(w) ==
  LET den == MaxDen(w, DOMAIN w)
  IN [n |-> NumeratorSum(w, DOMAIN w, den), d |-> den]

DenominatorsDivide(w) ==
  \A u \in DOMAIN w : MaxDen(w, DOMAIN w) % w[u].d = 0

\* |sum - 1| <= 10^-6
SumsToOne(w) ==
  LET sum == WeightSum(w)
      diff == IF sum.n > sum.d THEN sum.n - sum.d ELSE sum.d - sum.n
  IN DenominatorsDivide(w) /\ diff <= sum.d \div Scale

HasPositiveScore(scores) == \E u \in DOMAIN scores : scores[u] > 0

HasPositiveMiner(c) ==
  \E u \in DOMAIN c.scores \ {c.trader_pool_uid, c.owner_hotkey_uid} :
     c.scores[u] > 0

C12_SumIsZeroWithoutPositiveAndOwner ==
  (Normalized /\ ~HasPositiveScore(call.scores)
     /\ call.owner_hotkey_uid = NoUid)
    => WeightSum(call.weights).n = 0

\* C12 (amended): with no positive input score and no owner_uid the composed
\* vector holds the trader share alone (sum trader_weight) when the trader
\* uid resolves and trader_weight > 0, and is empty (sum 0) otherwise.
C12_OnlyTraderShareWithoutPositiveAndOwner ==
  (Normalized /\ ~HasPositiveScore(call.scores)
     /\ call.owner_hotkey_uid = NoUid)
    => IF call.trader_pool_uid # NoUid
            /\ ValidatedWeight(call.trader_pool_weight) > 0
       THEN /\ call.weights =
                 [u \in {call.trader_pool_uid} |->
                    [n |-> ValidatedWeight(call.trader_pool_weight),
                     d |-> Scale]]
            /\ WeightSum(call.weights).n =
                 ValidatedWeight(call.trader_pool_weight)
       ELSE /\ call.weights = EmptyMap
            /\ WeightSum(call.weights).n = 0

C12_Witness ==
  /\ Normalized
  /\ call.owner_hotkey_uid = NoUid
  /\ call.trader_pool_uid = TraderUid
  /\ call.trader_pool_weight = TraderRewardsPoolWeight
  /\ DOMAIN call.scores = {1, 2}
  /\ call.scores[1] = 0
  /\ call.scores[2] = -1
  /\ DOMAIN call.weights = {TraderUid}

\* C13: when the trader pool uid is resolved and trader_weight (in range,
\* > 0) is given, the composed vector assigns that uid exactly trader_weight,
\* whatever score the uid has itself and whatever the miners' scores are.
C13_TraderGetsExactlyTraderWeight ==
  (Normalized /\ call.trader_pool_uid # NoUid
     /\ call.trader_pool_weight > 0 /\ call.trader_pool_weight < Scale)
    => /\ call.trader_pool_uid \in DOMAIN call.weights
       /\ call.weights[call.trader_pool_uid] =
            [n |-> call.trader_pool_weight, d |-> Scale]

C13_Witness ==
  /\ Normalized
  /\ call.trader_pool_uid = TraderUid
  /\ call.trader_pool_weight = TraderRewardsPoolWeight
  /\ call.owner_hotkey_uid = OwnerUid
  /\ DOMAIN call.scores = {1, TraderUid}
  /\ call.scores[1] = 1
  /\ call.scores[TraderUid] = 2
  /\ call.weights[TraderUid].n = TraderRewardsPoolWeight
  /\ DOMAIN call.weights = {1, TraderUid}

\* C14: when no miner (a uid other than the trader's and the owner's) has a
\* positive score and owner_uid is present, the composed vector assigns
\* owner_uid exactly 1 - trader_weight.
C14_OwnerGetsRemainderWhenNoMinerScores ==
  (Normalized /\ call.owner_hotkey_uid # NoUid /\ ~HasPositiveMiner(call))
    => /\ call.owner_hotkey_uid \in DOMAIN call.weights
       /\ call.weights[call.owner_hotkey_uid] =
            [n |-> Scale - ValidatedWeight(call.trader_pool_weight),
             d |-> Scale]

C14_Witness ==
  /\ Normalized
  /\ call.owner_hotkey_uid = OwnerUid
  /\ call.trader_pool_uid = TraderUid
  /\ call.trader_pool_weight = TraderRewardsPoolWeight
  /\ DOMAIN call.scores = {1, 2}
  /\ call.scores[1] = 0
  /\ call.scores[2] = -1
  /\ call.weights[OwnerUid].n = Scale - TraderRewardsPoolWeight
  /\ DOMAIN call.weights = {OwnerUid, TraderUid}

\* C15 (as claimed): every uid of the input score map is kept in the output;
\* a miner whose score is zero or negative is present with weight exactly 0.
C15_ZeroScoreUidsKeptAtZero ==
  Normalized =>
    \A u \in DOMAIN call.scores \ {call.trader_pool_uid,
                                    call.owner_hotkey_uid} :
      /\ u \in DOMAIN call.weights
      /\ call.scores[u] <= 0 => call.weights[u].n = 0

(* ------------------------------------------------------------------ *)
(* Properties of process_entries                                       *)
(* ------------------------------------------------------------------ *)
Processed == call.fn = "process_entries" /\ call.status = "returned"

EntriesOfHotkey(hotkey) ==
  {i \in 1..Len(call.entries) : call.entries[i].hotkey = hotkey}

\* C16: in a pass of processor.process_entries, for every hotkey of the
\* deregistered set no position attributed to it reaches the scorer and the
\* miner's score is 0, whatever the amounts and lock days.
C16_DeregisteredHotkeyScoresZero ==
  (Processed /\ call.module = "processor") =>
    \A hotkey \in call.deregistered_hotkeys :
      EntriesOfHotkey(hotkey) # {} =>
        /\ call.positions[UidOf(hotkey)] = << >>
        /\ UidOf(hotkey) \in DOMAIN call.scores
        /\ call.scores[UidOf(hotkey)] = 0

C16_Witness ==
  /\ Processed
  /\ call.module = "processor"
  /\ call.deregistered_hotkeys = {"hk1"}
  /\ Len(call.entries) = 2
  /\ call.entries[1].hotkey = "hk1"
  /\ call.entries[1].amount = 2
  /\ ~DroppedByTime(call.entries[1])
  /\ call.entries[2].hotkey = "hk2"
  /\ DOMAIN call.scores = {1, 2}
  /\ call.scores[1] = 0
  /\ call.scores[2] > 0

\* neither deregistered_at <= now nor expires_at < now
Live(entry) ==
  /\ entry.deregistered_at = NoTime \/ entry.deregistered_at > Now
  /\ entry.expires_at = NoTime \/ entry.expires_at >= Now

RECURSIVE AmountOver(_)
AmountOver(S) ==
  IF S = {} THEN 0
  ELSE LET i == CHOOSE x \in S : TRUE
       IN call.entries[i].amount + AmountOver(S \ {i})

\* hotkeys with entries whose miner the pass did not zero as deregistered
ScoredHotkeys ==
  {h \in Hotkeys \ call.deregistered_hotkeys : EntriesOfHotkey(h) # {}}

\* C17 (as claimed): in every epoch pass an entry with well-formed
\* timestamps reaches the scorer if and only if neither
\* deregistered_at <= now nor expires_at < now: the positions scored for a
\* miner carry the amounts of exactly its live entries.
C17_OnlyLiveEntriesReachScorer ==
  Processed =>
    \A h \in ScoredHotkeys :
      LET live == {i \in EntriesOfHotkey(h) : Live(call.entries[i])}
      IN /\ (call.positions[UidOf(h)] # << >>) <=> (live # {})
         /\ TotalAmount(call.positions[UidOf(h)]) = AmountOver(live)

\* the entries of a hotkey that the pass retained
Retained(h) ==
  IF call.module = "processor"
  THEN {i \in EntriesOfHotkey(h) : Live(call.entries[i])}
  ELSE EntriesOfHotkey(h)

\* C18 (as claimed): every retained entry of a miner becomes its own
\* position record under a distinct key, with its own amount and lock_days;
\* entries with the same pool_id are never merged.
C18_EveryRetainedEntryIsOwnPosition ==
  Processed =>
    \A h \in ScoredHotkeys :
      LET positions == call.positions[UidOf(h)]
      IN /\ Len(positions) = Cardinality(Retained(h))
         /\ \A j, k \in 1..Len(positions) :
               j # k => positions[j].key # positions[k].key
         /\ \A i \in Retained(h) :
               \E j \in 1..Len(positions) :
                 /\ positions[j].amount = call.entries[i].amount
                 /\ positions[j].lockDays = call.entries[i].lock_days

(* ------------------------------------------------------------------ *)
(* Properties of run_epoch                                             *)
(* ------------------------------------------------------------------ *)
\* every entry of the response carries the epoch version E
AllCarry(E) ==
  /\ call.versions # << >>
  /\ \A i \in 1..Len(call.versions) : call.versions[i] = E

\* "weights_<E with ':' -> '-', 'T' -> '_', 'Z' dropped>_"
ExpectedLogFileName(E) ==
  << "weights_", ToString(E), "_", "00", "-", "00", "-", "00", "_" >>

\* C19: when the entries returned by the verifier all carry one
\* epoch_version E' other than the requested one, every later step of
\* epoch_runner.run_epoch uses E': the result's epoch_version, the epoch
\* passed to publish, and the payload and file name of the ranking artifact.
C19_ReturnedEpochAdopted ==
  (call.fn = "run_epoch" /\ call.module = "epoch_runner") =>
    \A E \in (1..MaxWeek) \ {call.requested} :
      AllCarry(E) =>
        /\ call.step \in {"processed", "logged", "returned"}
             => /\ call.result_epoch = E
                /\ (call.scored /\ ~call.dry_run) => call.publish_epoch = E
        /\ call.step \in {"logged", "returned"}
             => /\ call.log_epoch = E
                /\ call.log_file = ExpectedLogFileName(E)
                /\ call.log_file # ExpectedLogFileName(call.requested)
        /\ (call.step = "returned" /\ ~call.dry_run)
             => call.leaderboard_epoch = E

C19_Witness ==
  /\ call.fn = "run_epoch"
  /\ call.module = "epoch_runner"
  /\ call.step = "returned"
  /\ call.requested = 2
  /\ call.versions = << 1, 1 >>
  /\ ~call.dry_run
  /\ call.publish_epoch = 1
  /\ call.result_epoch = 1
  /\ call.log_epoch = 1

\* C20 (as claimed): after a weekly pass of the daemon in which the verifier
\* returned entries for an earlier frozen epoch E', cached_epoch_version
\* equals E', and a later re-publish of that week is labelled with E'.
C20_CacheCarriesReturnedEpoch ==
  (call.fn = "run_epoch" /\ call.module = "main"
     /\ call.step \in {"cached", "republished"}) =>
    \A E \in 1..MaxWeek :
      (E < call.requested /\ AllCarry(E)) =>
        /\ call.cached_epoch_version = E
        /\ call.step = "republished" => call.republish_epoch = E

\* C21 (as claimed): the deregistered-hotkey query of a pass is made for the
\* epoch the pass goes on with: when the verifier fell back to another epoch
\* E', the query carries E' and not the requested epoch.
C21_DeregisteredQueriedForAdoptedEpoch ==
  (call.fn = "run_epoch" /\ call.module = "epoch_runner"
     /\ call.dereg # "none" /\ call.step # "failed") =>
    call.dereg_epoch = call.epoch_version

\* C22: after an HTTP 403 on the verified-miners request the pass has ended
\* with an error and nothing else happened: no scoring, no publish and no
\* set_weights call, no ranking file, no leaderboard POST.
C22_Http403EndsPassBeforeAnyEffect ==
  (call.fn = "run_epoch" /\ call.verified = "403") =>
    /\ call.step = "failed"
    /\ call.error # "none"
    /\ ~call.scored
    /\ call.processed_entries = -1
    /\ call.publish_epoch = NoWeek
    /\ call.set_weights_calls = 0
    /\ call.log_file = << >>
    /\ call.leaderboard_epoch = NoWeek

C22_Witness ==
  /\ call.fn = "run_epoch"
  /\ call.module = "epoch_runner"
  /\ call.verified = "403"
  /\ call.step = "failed"
  /\ call.error = "RuntimeError"

\* C23: whatever way the deregistered-hotkeys request fails (HTTP error
\* status, connection error, malformed body), the pass raises nothing, goes
\* on with an empty deregistered set and hands all fetched entries to the
\* scorer with that empty set.
C23_DeregistrationFailureNotFatal ==
  (call.fn = "run_epoch"
     /\ call.dereg \in {"http_error", "request_error", "malformed"}) =>
    /\ call.error = "none"
    /\ call.step # "failed"
    /\ call.deregistered_hotkeys = {}
    /\ call.step \notin {"called", "fetched"}
         => /\ call.processed_entries = Len(call.versions)
            /\ call.passed_deregistered = {}

C23_Witness ==
  /\ call.fn = "run_epoch"
  /\ call.dereg = "http_error"
  /\ call.step = "returned"
  /\ call.scored
  /\ call.processed_entries = MaxEntries
  /\ call.passed_deregistered = {}

\* C30: a dry-run pass never calls publish or set_weights and never posts to
\* the leaderboard; when there are scores its weights come from _normalize.
C30_DryRunHasNoOutwardEffect ==
  (call.fn = "run_epoch" /\ call.dry_run) =>
    /\ call.publish_epoch = NoWeek
    /\ call.set_weights_calls = 0
    /\ call.leaderboard_epoch = NoWeek
    /\ call.scored => call.weights_from = "_normalize"

C30_Witness ==
  /\ call.fn = "run_epoch"
  /\ call.module = "epoch_runner"
  /\ call.dry_run
  /\ call.step = "returned"
  /\ call.scored
  /\ call.weights_from = "_normalize"
  /\ call.log_file # << >>

OracleIdle ==
  call.fn = "get_pool_weights_for_scoring" /\ call.phase = "idle"

RECURSIVE DenProduct(_, _)
DenProduct(weights, S) ==
  IF S = {} THEN 1
  ELSE LET p == CHOOSE q \in S : TRUE
       IN weights[p].d * DenProduct(weights, S \ {p})

\* the values of a returned map sum to exactly 1
PoolSumIsOne(weights) ==
  LET L == DenProduct(weights, DOMAIN weights)
      scaled == [p \in DOMAIN weights |-> weights[p].n * (L \div weights[p].d)]
  IN weights # << >> /\ SumOver(scaled, DOMAIN weights) = L

C25_ReturnedWeightsSumToOne ==
  (OracleIdle /\ call.last.status = "returned") =>
    PoolSumIsOne(call.last.weights)

\* C26 (as claimed): when the live fetch failed or gave an empty or zero-sum
\* result, the oracle returns the cache that was persisted (of any age) if
\* it has a positive total, otherwise the fallback table if non-empty, and
\* raises only when neither exists.
C26_FailedFetchFallsBackInOrder ==
  (OracleIdle /\ call.last.failed) =>
    LET cache_data == call.last.start_cache
    IN IF cache_data.state = "complete" /\ TotalWeight(cache_data.weights) > 0
       THEN /\ call.last.status = "returned"
            /\ call.last.weights = NormalizePools(cache_data.weights)
       ELSE IF call.fallback_weights # << >>
       THEN /\ call.last.status = "returned"
            /\ call.last.weights = FallbackWeights(call.fallback_weights)
       ELSE call.last.status = "raised"

\* C28 (as claimed): after a crash during a cache write the cache file holds
\* a complete document, the previous one or the new one, never a partly
\* written one.
C28_CrashLeavesCompleteCacheFile ==
  (OracleIdle /\ call.last.status = "crashed") =>
    call.file.state # "partial"

(* ------------------------------------------------------------------ *)
(* Properties of publish after set_weights answered                    *)
(* ------------------------------------------------------------------ *)
\* the message holds the phrase at some position, letter case set aside
HoldsPhrase(message, phrase) ==
  \E i \in 0..Len(message) :
    /\ i + Len(phrase) <= Len(message)
    /\ \A k \in 1..Len(phrase) : LowerChar(message[i + k]) = phrase[k]

\* C29: after a non-success answer of set_weights, publish returns the
\* composed weights without error exactly when the message contains "too
\* soon" or "cooldown" in any letter case; otherwise it raises.
C29_OnlyCooldownMessagesReturn ==
  (call.fn = "publish" /\ call.status # "answered" /\ ~call.success) =>
    /\ (call.status = "returned" /\ call.returned_weights)
         <=> (HoldsPhrase(call.message, TooSoon)
              \/ HoldsPhrase(call.message, Cooldown))
    /\ call.status \in {"returned", "raised"}

C29_Witness ==
  /\ call.fn = "publish"
  /\ ~call.success
  /\ call.status = "returned"
  /\ call.returned_weights
  /\ call.message = << "T", "o", "o", " ", "s", "O", "O", "N" >>

(* ------------------------------------------------------------------ *)
(* Properties of the scorer                                            *)
(* ------------------------------------------------------------------ *)

\* C32 (as claimed): in every pass of process_entries a miner whose
\* retained position amounts sum to strictly less than min_total_assets_usdc
\* scores exactly 0, and a miner at or above the threshold scores what the
\* scoring formula gives for its positions.
C32_BelowThresholdScoresZero ==
  Processed =>
    \A h \in ScoredHotkeys :
      LET positions == call.positions[UidOf(h)]
      IN positions # << >> =>
           call.scores[UidOf(h)] =
             IF TotalAmount(positions) < MinTotalAssets THEN 0
             ELSE score_entry(positions, call.settings).score

\* the weight the oracle returned for the position's own pool_id, 0 when the
\* map has no entry for it
LookupByPoolId(pool_weights, position) ==
  IF position.pool_id \in DOMAIN pool_weights
  THEN pool_weights[position.pool_id] ELSE 0

RECURSIVE RawTotalByPoolId(_, _)
RawTotalByPoolId(positions, pool_weights) ==
  IF positions = << >> THEN 0
  ELSE LET p == Head(positions)
           boosted == IF p.lockDays < MaxLockDays THEN p.lockDays
                      ELSE MaxLockDays
       IN LookupByPoolId(pool_weights, p) * p.amount * boosted
            + RawTotalByPoolId(Tail(positions), pool_weights)

Scored == call.fn = "score_entry" /\ call.step # "called"

\* C31 (as claimed): in scoring, each position is multiplied by the pool
\* weight the oracle returned for the position's own pool_id, and a position
\* whose pool_id has no entry in the pool-weight map contributes 0.
C31_PositionWeighedByItsPool ==
  Scored =>
    \A uid \in {1, 2} :
      call.raw_total[uid] =
        RawTotalByPoolId(call.positions[uid], call.settings.pool_weights)

\* C33 (as claimed): a miner's score is the raw sum over its positions with
\* no further transformation, so two miners whose positions differ only in
\* amount by the ratio 1:2 receive miner weights in the ratio 1:2.
C33_ScoreIsRawSum ==
  /\ Scored =>
       /\ ~call.raised
       /\ \A uid \in {1, 2} :
            call.scores[uid] * RawUnit = call.raw_total[uid] * ScoreUnit
  /\ (Scored /\ call.step = "composed" /\ call.scores[1] > 0) =>
       /\ call.weights[2][2] = call.weights[1][2]
       /\ call.weights[2][1] = 2 * call.weights[1][1]

(* ------------------------------------------------------------------ *)
(* Properties of epoch_start                                           *)
(* ------------------------------------------------------------------ *)
\* the position of an instant on the time line, in slots
Instant(t) == t.day * SlotsPerDay + t.slot

IsFridayMidnight(t) == t.slot = 0 /\ (t.day - 4) % 7 = 0

\* C34: for every UTC instant t the weekly epoch start is the latest
\* Friday 00:00:00 UTC not after t: it is a Friday midnight, it is not after
\* t, and t lies before the Friday midnight seven days later; so the instants
\* from a Friday 00:00 up to the next one share the start and the next
\* Friday 00:00 has another.
C34_StartIsLatestFridayMidnight ==
  (call.fn = "epoch_start" /\ call.status = "returned") =>
    LET start == call.start[1]
    IN /\ IsFridayMidnight(start)
       /\ Instant(start) <= Instant(call.reference)
       /\ Instant(call.reference) < Instant(start) + 7 * SlotsPerDay

C34_Witness ==
  /\ call.fn = "epoch_start"
  /\ call.status = "returned"
  /\ call.reference = [day |-> 10, slot |-> SlotsPerDay - 1]
  /\ call.start = Some([day |-> 4, slot |-> 0])

(* ------------------------------------------------------------------ *)
(* Properties of the publish cadence                                   *)
(* ------------------------------------------------------------------ *)
\* the block at which the running publish call started set_weights
SubmitBlock == pub.gap + mg_last_update

\* C35 (as claimed): within a weekly epoch, after a set_weights submission
\* that succeeded the daemon starts no further set_weights call until at
\* least tempo blocks have elapsed since that submission, whatever the
\* timing of its poll ticks and metagraph resyncs.
C35_NoResubmitWithinTempo ==
  (pc = "join" /\ pub.ctx = "tempo" /\ last_submit_block # NoBlock) =>
    SubmitBlock - last_submit_block >= bittensor_epoch_length

(* ------------------------------------------------------------------ *)
(* Properties of _normalize: the scores of the trader and the owner    *)
(* ------------------------------------------------------------------ *)
\* a score entry of a uid: absent, or any score
ScoreEntryChoices == {None} \cup {Some(v) : v \in -1..MaxScore}

\* the score map with the entry of uid replaced (nothing when uid is NoUid)
WithEntry(scores, uid, entry) ==
  IF uid = NoUid THEN scores
  ELSE LET dom == IF entry = None THEN DOMAIN scores \ {uid}
                  ELSE DOMAIN scores \cup {uid}
       IN [u \in dom |-> IF u = uid THEN entry[1] ELSE scores[u]]

\* C36: the scores stored under trader_uid and owner_uid never influence
\* the composed vector: a composition that differs only in those two score
\* entries returns the same weights, and owner_uid receives no weight
\* whenever some other miner has a positive score.
C36_TraderAndOwnerScoresIgnored ==
  Normalized =>
    /\ \A t, o \in ScoreEntryChoices :
         _normalize(WithEntry(WithEntry(call.scores,
                                        call.trader_pool_uid, t),
                              call.owner_hotkey_uid, o),
                    call.trader_pool_uid, call.trader_pool_weight,
                    call.owner_hotkey_uid) = call.weights
    /\ (call.owner_hotkey_uid # NoUid /\ HasPositiveMiner(call)) =>
         call.owner_hotkey_uid \notin DOMAIN call.weights

C36_Witness ==
  /\ Normalized
  /\ call.trader_pool_uid = TraderUid
  /\ call.trader_pool_weight = TraderRewardsPoolWeight
  /\ call.owner_hotkey_uid = OwnerUid
  /\ DOMAIN call.scores = ScoreUids
  /\ call.scores[OwnerUid] = 2
  /\ call.scores[TraderUid] = 1
  /\ call.scores[1] = 1
  /\ call.scores[2] = 0
  /\ DOMAIN call.weights = {1, TraderUid}
  /\ call.weights[1] = [n |-> Scale - TraderRewardsPoolWeight, d |-> Scale]

(* ------------------------------------------------------------------ *)
(* Properties of a pass without scores                                 *)
(* ------------------------------------------------------------------ *)
\* C37 (as claimed): a non-dry-run epoch pass in which no miner obtains a
\* score entry still calls publish, so that the trader share and the owner
\* burn allocation are submitted for that pass.
C37_PassWithoutScoresCallsPublish ==
  (call.fn = "run_epoch" /\ ~call.dry_run /\ ~call.scored
     /\ call.step \notin {"called", "fetched", "failed"}) =>
    /\ call.weights_from = "publish"
    /\ call.publish_epoch # NoWeek

\* C38 (as claimed): publish never calls set_weights with an empty uid list:
\* whenever composition yields no allocation, publish returns without
\* starting the submission.
C38_NoSubmitOfEmptyWeights ==
  pub.submitted => pub.weights # EmptyMap

(* ------------------------------------------------------------------ *)
(* Properties of the pool-weight cache file                            *)
(* ------------------------------------------------------------------ *)
\* the last oracle call ended by returning or raising
OracleCallEnded ==
  /\ call.fn = "get_pool_weights_for_scoring"
  /\ call.phase = "idle"
  /\ call.last.status \in {"returned", "raised"}

\* C39 (as claimed): the persisted pool-weight cache is overwritten only by
\* a live fetch whose result that same call returns; a call that ends up
\* serving cached or fallback weights, or that raises, leaves the content of
\* the cache file as it was when the call began.
C39_CacheWrittenOnlyByReturnedLiveFetch ==
  (OracleCallEnded /\ call.last.source # "live") =>
    LoadCache(call.file) = call.last.start_cache

(* ------------------------------------------------------------------ *)
(* Properties of the version_key                                       *)
(* ------------------------------------------------------------------ *)
\* both versions are of the form MAJOR.MINOR.PATCH and their keys computed
Encoded ==
  /\ call.fn = "__spec_version__"
  /\ call.status = "returned"
  /\ Len(call.a) = 3
  /\ Len(call.b) = 3

\* semantic-version order: by MAJOR, then MINOR, then PATCH
Precedes(a, b) ==
  \/ a[1] < b[1]
  \/ a[1] = b[1] /\ a[2] < b[2]
  \/ a[1] = b[1] /\ a[2] = b[2] /\ a[3] < b[3]

\* MINOR below 100 and PATCH below 10
InRange(v) == v[2] < 100 /\ v[3] < 10

\* C40 (as claimed): for any two versions a < b with arbitrary non-negative
\* MAJOR, MINOR and PATCH the version_key of a is strictly smaller than the
\* one of b, and two distinct versions never share a version_key.
C40_KeyPreservesOrder ==
  Encoded =>
    /\ Precedes(call.a, call.b) => call.key_a < call.key_b
    /\ call.a # call.b => call.key_a # call.key_b

\* C40 (amended): for any two versions a < b whose MINOR is below 100 and
\* whose PATCH is below 10 the version_key of a is strictly smaller than the
\* one of b, and two distinct such versions never share a version_key.
C40_KeyPreservesOrderInRange ==
  (Encoded /\ InRange(call.a) /\ InRange(call.b)) =>
    /\ Precedes(call.a, call.b) => call.key_a < call.key_b
    /\ call.a # call.b => call.key_a # call.key_b

C40_Witness ==
  /\ Encoded
  /\ call.a = << 0, 99, 9 >>
  /\ call.b = << 1, 0, 0 >>
  /\ call.key_a = 999
  /\ call.key_b = 1000

====
